---- MODULE Spec2Model ----
(***************************************************************************)
(* Model of the monolaunch command-line scaffolder: one run of the CLI    *)
(* entry point (dist/index.js) from argument parsing through the          *)
(* configuration resolver, the directory guard, the dry-run reporter and  *)
(* the generator dispatch, followed by the two provisioning flows of      *)
(* src/generators.ts (createWebOnlyApp, createMonorepo).                  *)
(*                                                                         *)
(* Paths are sequences of path components relative to the directory the   *)
(* tool was started in (<<>> is that directory).  Every observable        *)
(* operation of the run (prompt, existence check, subprocess, file write, *)
(* directory change, ...) is appended to `trace` as <<kind, detail>>.     *)
(***************************************************************************)
EXTENDS Integers, Sequences, FiniteSets, TLC

(***************************************************************************)
(* Bounds of the model.                                                    *)
(***************************************************************************)
\* how many unrecognized flags an argument vector may carry
MaxUnknownFlags == 1
\* how many provisioning steps may fail in one run
MaxFailures == 1

(***************************************************************************)
(* JavaScript values that are not strings of the input alphabet.          *)
(***************************************************************************)
\* the value `undefined`
Undefined == "<undefined>"
\* the cancel symbol @clack/prompts returns when a prompt is dismissed
CancelSym == "<cancel>"
\* exitCode while the process is still running
Running == -1

\* JavaScript truthiness of a string-or-undefined value (and of the cancel
\* symbol, which is a Symbol and therefore truthy)
Truthy(x) == x # Undefined /\ x # ""

isCancel(x) == x = CancelSym

(***************************************************************************)
(* Argument vectors.                                                       *)
(***************************************************************************)
BoolFlagOrder == <<"-h", "--version", "--verbose", "-q", "--force", "--dry-run">>
ArchValues == {"monorepo", "nextjs-only", "monolith", ""}
TmplValues == {"bare", "opinionated", "fancy", ""}
PosSegs == {<<>>, <<"myapp">>, <<"">>, <<"/abs">>, <<"myapp", "extra">>}
ArchSegs == {<<>>, <<"-a">>} \cup {<<"--architecture", v>> : v \in ArchValues}
TmplSegs == {<<>>, <<"--template">>} \cup {<<"-t", v>> : v \in TmplValues}
UnknownSegs == {[i \in 1..n |-> "--bogus"] : n \in 0..MaxUnknownFlags}
FlagSegs == {SelectSeq(BoolFlagOrder, LAMBDA t : t \in S) : S \in SUBSET {"-h", "--version", "--verbose", "-q", "--force", "--dry-run"}}

ArgvSet == {p \o f \o u \o a \o t : p \in PosSegs, f \in FlagSegs, u \in UnknownSegs, a \in ArchSegs, t \in TmplSegs}

\* tokens that begin with a dash
OptionLike == {"-t", "--template", "-a", "--architecture", "-h", "--help", "-v", "--version", "--verbose", "-q", "--quiet", "-f", "--force", "--dry-run", "--bogus"}

\* the option table handed to parseArgs: token -> option name
OptionName(tok) ==
    CASE tok \in {"-t", "--template"} -> "template"
      [] tok \in {"-a", "--architecture"} -> "architecture"
      [] tok \in {"-h", "--help"} -> "help"
      [] tok \in {"-v", "--version"} -> "version"
      [] tok = "--verbose" -> "verbose"
      [] tok \in {"-q", "--quiet"} -> "quiet"
      [] tok \in {"-f", "--force"} -> "force"
      [] tok = "--dry-run" -> "dry-run"
      [] OTHER -> Undefined

StringOptions == {"template", "architecture"}

NoValues == [template |-> Undefined, architecture |-> Undefined, help |-> FALSE, version |-> FALSE, verbose |-> FALSE, quiet |-> FALSE, force |-> FALSE, dryRun |-> FALSE]

SetBool(vals, name) ==
    CASE name = "help" -> [vals EXCEPT !.help = TRUE]
      [] name = "version" -> [vals EXCEPT !.version = TRUE]
      [] name = "verbose" -> [vals EXCEPT !.verbose = TRUE]
      [] name = "quiet" -> [vals EXCEPT !.quiet = TRUE]
      [] name = "force" -> [vals EXCEPT !.force = TRUE]
      [] OTHER -> [vals EXCEPT !.dryRun = TRUE]

SetString(vals, name, v) ==
    IF name = "template" THEN [vals EXCEPT !.template = v] ELSE [vals EXCEPT !.architecture = v]

\* node:util parseArgs with the option table above, allowPositionals: true
\* and the default strict: true.  Walks the tokens left to right; an
\* unknown option, or a string option without a usable value, throws.
RECURSIVE ParseFrom(_, _, _, _)
ParseFrom(args, i, vals, pos) ==
    IF i > Len(args) THEN [ok |-> TRUE, values |-> vals, positionals |-> pos]
    ELSE LET tok == args[i]
             name == OptionName(tok)
         IN IF tok \notin OptionLike THEN ParseFrom(args, i + 1, vals, Append(pos, tok))
            ELSE IF name = Undefined THEN [ok |-> FALSE, values |-> vals, positionals |-> pos]
            ELSE IF name \in StringOptions
                 THEN IF i = Len(args) \/ args[i + 1] \in OptionLike
                      THEN [ok |-> FALSE, values |-> vals, positionals |-> pos]
                      ELSE ParseFrom(args, i + 2, SetString(vals, name, args[i + 1]), pos)
            ELSE ParseFrom(args, i + 1, SetBool(vals, name), pos)

\* parseArgs as it would be with strict: false: unknown options are skipped
parseArgs_Lenient(args) == ParseFrom(SelectSeq(args, LAMBDA tok : tok \notin OptionLike \/ OptionName(tok) # Undefined), 1, NoValues, <<>>)

parseArgs(args) == ParseFrom(args, 1, NoValues, <<>>)

(***************************************************************************)
(* Paths.                                                                  *)
(***************************************************************************)
\* node:path join of a directory and one component; an empty component
\* contributes nothing, and an absolute one is appended like any other
\* (join("/home/u", "/abs") is "/home/u/abs")
join(dir, name) == IF name = "" THEN dir ELSE IF name = "/abs" THEN Append(dir, "abs") ELSE Append(dir, name)

\* the directory a name denotes to process.chdir and to a shell working in
\* dir: an absolute name denotes itself, under the filesystem root "/"
resolve(dir, name) == IF name = "/abs" THEN <<"/", "abs">> ELSE join(dir, name)

InitialCwd == <<>>

(***************************************************************************)
(* State.                                                                  *)
(***************************************************************************)
VARIABLES
    argv,            \* process.argv.slice(2)
    fs,              \* set of paths that exist
    cwd,             \* process.cwd()
    pc,              \* position of the single control flow
    values,          \* parseArgs(...).values
    positionals,     \* parseArgs(...).positionals
    appName,         \* let appName
    targetDirectory, \* const targetDirectory
    createOption,    \* let createOption
    templateType,    \* let templateType
    projectPath,     \* const projectPath of the running generator
    ip,              \* index of the next call site of the running generator
    addAllComponents, \* const addAllComponents (answer of the confirm prompt)
    trace,           \* observable operations performed so far
    nFailed,         \* provisioning steps that have failed so far
    failures,        \* the calls that did not go well: site, outcome, result, trace length after
    printed,         \* what has been written to the terminal: <<stream, kind of line>>
    contents,        \* what the files hold, where a step is studied on its own: path -> content
    hist,            \* the steps applied on their own: call, result, file tree and contents before and after
    exitCode         \* process exit code, Running until the process ends

vars == <<argv, fs, cwd, pc, values, positionals, appName, targetDirectory, createOption, templateType, projectPath, ip, addAllComponents, trace, nFailed, failures, printed, contents, hist, exitCode>>

NoPath == <<"<none>">>

existsSync(p) == p \in fs

Init ==
    /\ argv \in ArgvSet
    /\ fs \in {{InitialCwd}, {InitialCwd, <<"myapp">>}}
    /\ cwd = InitialCwd
    /\ pc = "parseArgs"
    /\ values = NoValues
    /\ positionals = <<>>
    /\ appName = Undefined
    /\ targetDirectory = NoPath
    /\ createOption = Undefined
    /\ templateType = Undefined
    /\ projectPath = NoPath
    /\ ip = 0
    /\ addAllComponents = Undefined
    /\ trace = <<>>
    /\ nFailed = 0
    /\ failures = <<>>
    /\ printed = {}
    /\ contents = <<>>
    /\ hist = <<>>
    /\ exitCode = Running

\* process.exit(code), or the end of the script
Exit(code) ==
    /\ pc' = "exited"
    /\ exitCode' = code

\* an exception nobody catches ends the process with exit code 1
Throw == Exit(1)

\* an observable operation: <<kind, what, where>>
Ev(op, what, at) == <<op, what, at>>

Emit(ev) == trace' = Append(trace, ev)

\* kinds of terminal output, each on the stream it is written to
Out ==
    [info |-> <<"stdout", "info">>,          \* intro, log.info, log.warning, outro; console.log progress lines
     echo |-> <<"stdout", "echo">>,          \* console.log(`  • Running: ${command}`)
     child |-> <<"stdout", "child">>,        \* output of a subprocess started with stdio: "inherit"
     prompt |-> <<"stdout", "prompt">>,      \* a rendered text / select / confirm prompt
     cancel |-> <<"stdout", "cancel">>,      \* cancel(message)
     result |-> <<"stdout", "result">>,      \* version line, quiet help, quiet dry-run report
     verbose |-> <<"stdout", "verbose">>,    \* console.log under values.verbose in quiet mode
     error |-> <<"stderr", "error">>,        \* console.error(message)
     uncaught |-> <<"stderr", "uncaught">>]  \* the report of an uncaught exception

Say(lines) == printed' = printed \cup lines

\* a prompt the user dismisses: if (isCancel(answer)) { cancel("Operation cancelled."); ... }
Cancelled(prompt) == trace' = trace \o <<Ev("prompt", prompt, cwd), Ev("cancel", "Operation cancelled.", cwd)>>

(***************************************************************************)
(* dist/index.js: parser, resolver, directory guard, dry-run, dispatch.    *)
(***************************************************************************)
Frame == UNCHANGED <<argv, contents, hist, fs, cwd, nFailed, failures, projectPath, addAllComponents>>
FrameIp == Frame /\ UNCHANGED ip

\* const { values, positionals } = parseArgs({...}); a parse error is an
\* uncaught exception
ParseArgs ==
    /\ pc = "parseArgs"
    /\ Say(IF parseArgs(argv).ok THEN {} ELSE {Out.uncaught})
    /\ LET r == parseArgs(argv)
       IN IF r.ok
          THEN /\ values' = r.values
               /\ positionals' = r.positionals
               /\ pc' = "version"
               /\ UNCHANGED exitCode
          ELSE /\ Throw
               /\ UNCHANGED <<values, positionals>>
    /\ UNCHANGED <<appName, targetDirectory, createOption, templateType, trace>>
    /\ FrameIp

\* if (values.version) { console.log(...); process.exit(0); }
HandleVersion ==
    /\ pc = "version"
    /\ Say(IF values.version THEN {Out.result} ELSE {})
    /\ IF values.version THEN Exit(0) ELSE pc' = "help" /\ UNCHANGED exitCode
    /\ UNCHANGED <<values, positionals, appName, targetDirectory, createOption, templateType, trace>>
    /\ FrameIp

\* HandleHelp with the help text shown, and the exit taken, only outside quiet mode
HandleHelp_NotInQuiet ==
    /\ pc = "help"
    /\ Say(IF ~values.quiet THEN {Out.info} ELSE IF values.help THEN {Out.result} ELSE {})
    /\ IF values.help /\ ~values.quiet THEN Exit(0) ELSE pc' = "appName" /\ UNCHANGED exitCode
    /\ UNCHANGED <<values, positionals, appName, targetDirectory, createOption, templateType, trace>>
    /\ FrameIp

\* if (values.help) { ...; process.exit(0); }
HandleHelp ==
    /\ pc = "help"
    /\ Say(IF ~values.quiet THEN {Out.info} ELSE IF values.help THEN {Out.result} ELSE {})
    /\ IF values.help THEN Exit(0) ELSE pc' = "appName" /\ UNCHANGED exitCode
    /\ UNCHANGED <<values, positionals, appName, targetDirectory, createOption, templateType, trace>>
    /\ FrameIp

\* positionals[0]
FirstPositional == IF Len(positionals) = 0 THEN Undefined ELSE positionals[1]

\* let appName = positionals[0]; if (!appName) { quiet: exit 1; else prompt }
ResolveAppName ==
    /\ pc = "appName"
    /\ Say(IF Truthy(FirstPositional) THEN {} ELSE IF values.quiet THEN {Out.error} ELSE {Out.info})
    /\ appName' = FirstPositional
    /\ IF ~Truthy(FirstPositional)
       THEN IF values.quiet THEN Exit(1) ELSE pc' = "appNamePrompt" /\ UNCHANGED exitCode
       ELSE pc' = "appNameCancel" /\ UNCHANGED exitCode
    /\ UNCHANGED <<values, positionals, targetDirectory, createOption, templateType, trace>>
    /\ FrameIp

\* what the text prompt can resolve to: typed text, nothing typed (an empty
\* string or undefined, depending on the prompt library), or the cancel symbol
TextAnswers == {"myapp", "", Undefined, CancelSym}

\* const appNamePrompt = await text({...}); cancel -> exit 0
PromptAppName ==
    /\ pc = "appNamePrompt"
    /\ \E answer \in TextAnswers :
          IF isCancel(answer)
          THEN Cancelled("text:appName") /\ Say({Out.prompt, Out.cancel}) /\ Exit(0) /\ UNCHANGED appName
          ELSE Emit(Ev("prompt", "text:appName", cwd)) /\ Say({Out.prompt}) /\ appName' = answer /\ pc' = "appNameCancel" /\ UNCHANGED exitCode
    /\ UNCHANGED <<values, positionals, targetDirectory, createOption, templateType>>
    /\ FrameIp

\* if (isCancel(appName)) { cancel(...); process.exit(0); }
CheckAppNameCancel ==
    /\ pc = "appNameCancel"
    /\ Say(IF isCancel(appName) THEN {Out.cancel} ELSE {})
    /\ IF isCancel(appName) THEN Exit(0) ELSE pc' = "directoryGuard" /\ UNCHANGED exitCode
    /\ UNCHANGED <<values, positionals, appName, targetDirectory, createOption, templateType, trace>>
    /\ FrameIp

\* DirectoryGuard that lets a colliding directory through without --force
DirectoryGuard_NeverStops ==
    /\ pc = "directoryGuard"
    /\ Say(IF appName = Undefined THEN {Out.uncaught}
           ELSE IF existsSync(join(cwd, appName)) /\ ~values.force THEN (IF values.quiet THEN {Out.error} ELSE {Out.cancel})
           ELSE IF values.quiet THEN {} ELSE {Out.info})
    /\ IF appName = Undefined
       THEN /\ Throw
            /\ UNCHANGED <<targetDirectory, trace>>
       ELSE /\ targetDirectory' = join(cwd, appName)
            /\ Emit(Ev("existsSync", IF existsSync(join(cwd, appName)) THEN "true" ELSE "false", join(cwd, appName)))
            /\ pc' = "architecture" /\ UNCHANGED exitCode
    /\ UNCHANGED <<values, positionals, appName, createOption, templateType>>
    /\ FrameIp

\* DirectoryGuard that stops at a colliding directory whether or not --force is given
DirectoryGuard_IgnoresForce ==
    /\ pc = "directoryGuard"
    /\ Say(IF appName = Undefined THEN {Out.uncaught}
           ELSE IF existsSync(join(cwd, appName)) /\ ~values.force THEN (IF values.quiet THEN {Out.error} ELSE {Out.cancel})
           ELSE IF values.quiet THEN {} ELSE {Out.info})
    /\ IF appName = Undefined
       THEN /\ Throw
            /\ UNCHANGED <<targetDirectory, trace>>
       ELSE /\ targetDirectory' = join(cwd, appName)
            /\ Emit(Ev("existsSync", IF existsSync(join(cwd, appName)) THEN "true" ELSE "false", join(cwd, appName)))
            /\ IF existsSync(join(cwd, appName))
               THEN Exit(1)
               ELSE pc' = "architecture" /\ UNCHANGED exitCode
    /\ UNCHANGED <<values, positionals, appName, createOption, templateType>>
    /\ FrameIp

\* const targetDirectory = join(process.cwd(), appName);
\* if (existsSync(targetDirectory)) { if (!values.force) exit 1 }
\* join throws a TypeError when appName is not a string
DirectoryGuard ==
    /\ pc = "directoryGuard"
    /\ Say(IF appName = Undefined THEN {Out.uncaught}
           ELSE IF existsSync(join(cwd, appName)) /\ ~values.force THEN (IF values.quiet THEN {Out.error} ELSE {Out.cancel})
           ELSE IF values.quiet THEN {} ELSE {Out.info})
    /\ IF appName = Undefined
       THEN /\ Throw
            /\ UNCHANGED <<targetDirectory, trace>>
       ELSE /\ targetDirectory' = join(cwd, appName)
            /\ Emit(Ev("existsSync", IF existsSync(join(cwd, appName)) THEN "true" ELSE "false", join(cwd, appName)))
            /\ IF existsSync(join(cwd, appName)) /\ ~values.force
               THEN Exit(1)
               ELSE pc' = "architecture" /\ UNCHANGED exitCode
    /\ UNCHANGED <<values, positionals, appName, createOption, templateType>>
    /\ FrameIp

\* ResolveArchitecture without the quiet-mode exit: a missing value goes to the prompt
ResolveArchitecture_NoQuietExit ==
    /\ pc = "architecture"
    /\ Say(IF Truthy(values.architecture) THEN {} ELSE IF values.quiet THEN {Out.error} ELSE {Out.info})
    /\ createOption' = values.architecture
    /\ IF ~Truthy(values.architecture)
       THEN pc' = "architecturePrompt" /\ UNCHANGED exitCode
       ELSE pc' = "architectureValidate" /\ UNCHANGED exitCode
    /\ UNCHANGED <<values, positionals, appName, targetDirectory, templateType, trace>>
    /\ FrameIp

\* let createOption = values.architecture; if (!createOption) { quiet: exit 1; else prompt }
ResolveArchitecture ==
    /\ pc = "architecture"
    /\ Say(IF Truthy(values.architecture) THEN {} ELSE IF values.quiet THEN {Out.error} ELSE {Out.info})
    /\ createOption' = values.architecture
    /\ IF ~Truthy(values.architecture)
       THEN IF values.quiet THEN Exit(1) ELSE pc' = "architecturePrompt" /\ UNCHANGED exitCode
       ELSE pc' = "architectureValidate" /\ UNCHANGED exitCode
    /\ UNCHANGED <<values, positionals, appName, targetDirectory, templateType, trace>>
    /\ FrameIp

ArchitectureOptions == {"monorepo", "nextjs-only"}

\* const createOptionPrompt = await select({...}); cancel -> exit 0
PromptArchitecture ==
    /\ pc = "architecturePrompt"
    /\ \E answer \in ArchitectureOptions \cup {CancelSym} :
          IF isCancel(answer)
          THEN Cancelled("select:architecture") /\ Say({Out.prompt, Out.cancel}) /\ Exit(0) /\ UNCHANGED createOption
          ELSE Emit(Ev("prompt", "select:architecture", cwd)) /\ Say({Out.prompt}) /\ createOption' = answer /\ pc' = "architectureValidate" /\ UNCHANGED exitCode
    /\ UNCHANGED <<values, positionals, appName, targetDirectory, templateType>>
    /\ FrameIp

\* ValidateArchitecture without the membership test
ValidateArchitecture_AcceptsAny ==
    /\ pc = "architectureValidate"
    /\ Say(IF isCancel(createOption) THEN {Out.cancel}
           ELSE IF Truthy(createOption) /\ createOption \notin {"monorepo", "nextjs-only"} THEN (IF values.quiet THEN {Out.error} ELSE {Out.cancel})
           ELSE IF values.quiet THEN {} ELSE {Out.info})
    /\ IF isCancel(createOption) THEN Exit(0)
       ELSE pc' = "template" /\ UNCHANGED exitCode
    /\ UNCHANGED <<values, positionals, appName, targetDirectory, createOption, templateType, trace>>
    /\ FrameIp

\* if (isCancel(createOption)) exit 0;
\* if (createOption && !["monorepo", "nextjs-only"].includes(createOption)) exit 1
ValidateArchitecture ==
    /\ pc = "architectureValidate"
    /\ Say(IF isCancel(createOption) THEN {Out.cancel}
           ELSE IF Truthy(createOption) /\ createOption \notin {"monorepo", "nextjs-only"} THEN (IF values.quiet THEN {Out.error} ELSE {Out.cancel})
           ELSE IF values.quiet THEN {} ELSE {Out.info})
    /\ IF isCancel(createOption) THEN Exit(0)
       ELSE IF Truthy(createOption) /\ createOption \notin {"monorepo", "nextjs-only"} THEN Exit(1)
       ELSE pc' = "template" /\ UNCHANGED exitCode
    /\ UNCHANGED <<values, positionals, appName, targetDirectory, createOption, templateType, trace>>
    /\ FrameIp

\* ResolveTemplate that asks in interactive mode even when --template was given
ResolveTemplate_AlwaysAsks ==
    /\ pc = "template"
    /\ Say(IF Truthy(values.template) THEN {} ELSE IF values.quiet THEN {Out.error} ELSE {Out.info})
    /\ templateType' = values.template
    /\ IF values.quiet
       THEN IF ~Truthy(values.template) THEN Exit(1) ELSE pc' = "templateValidate" /\ UNCHANGED exitCode
       ELSE pc' = "templatePrompt" /\ UNCHANGED exitCode
    /\ UNCHANGED <<values, positionals, appName, targetDirectory, createOption, trace>>
    /\ FrameIp

\* let templateType = values.template; if (!templateType) { quiet: exit 1; else prompt }
ResolveTemplate ==
    /\ pc = "template"
    /\ Say(IF Truthy(values.template) THEN {} ELSE IF values.quiet THEN {Out.error} ELSE {Out.info})
    /\ templateType' = values.template
    /\ IF ~Truthy(values.template)
       THEN IF values.quiet THEN Exit(1) ELSE pc' = "templatePrompt" /\ UNCHANGED exitCode
       ELSE pc' = "templateValidate" /\ UNCHANGED exitCode
    /\ UNCHANGED <<values, positionals, appName, targetDirectory, createOption, trace>>
    /\ FrameIp

TemplateOptions == {"bare", "opinionated"}

\* const templateTypePrompt = await select({...}); cancel -> exit 0
PromptTemplate ==
    /\ pc = "templatePrompt"
    /\ \E answer \in TemplateOptions \cup {CancelSym} :
          IF isCancel(answer)
          THEN Cancelled("select:template") /\ Say({Out.prompt, Out.cancel}) /\ Exit(0) /\ UNCHANGED templateType
          ELSE Emit(Ev("prompt", "select:template", cwd)) /\ Say({Out.prompt}) /\ templateType' = answer /\ pc' = "templateValidate" /\ UNCHANGED exitCode
    /\ UNCHANGED <<values, positionals, appName, targetDirectory, createOption>>
    /\ FrameIp

\* if (isCancel(templateType)) exit 0;
\* if (templateType && !["bare", "opinionated"].includes(templateType)) exit 1
ValidateTemplate ==
    /\ pc = "templateValidate"
    /\ Say(IF isCancel(templateType) THEN {Out.cancel}
           ELSE IF Truthy(templateType) /\ templateType \notin {"bare", "opinionated"} THEN (IF values.quiet THEN {Out.error} ELSE {Out.cancel})
           ELSE IF values.quiet THEN {} ELSE {Out.info})
    /\ IF isCancel(templateType) THEN Exit(0)
       ELSE IF Truthy(templateType) /\ templateType \notin {"bare", "opinionated"} THEN Exit(1)
       ELSE pc' = "dryRun" /\ UNCHANGED exitCode
    /\ UNCHANGED <<values, positionals, appName, targetDirectory, createOption, templateType, trace>>
    /\ FrameIp

\* DryRun that reports and then goes on to the generators
DryRun_NoExit ==
    /\ pc = "dryRun"
    /\ Say(IF ~values.quiet THEN {Out.info}
           ELSE (IF values.verbose THEN {Out.verbose} ELSE {}) \cup (IF values.dryRun THEN {Out.result} ELSE {}))
    /\ pc' = "dispatch" /\ UNCHANGED exitCode
    /\ UNCHANGED <<values, positionals, appName, targetDirectory, createOption, templateType, trace>>
    /\ FrameIp

\* if (values["dry-run"]) { ...report...; process.exit(0); }
DryRun ==
    /\ pc = "dryRun"
    /\ Say(IF ~values.quiet THEN {Out.info}
           ELSE (IF values.verbose THEN {Out.verbose} ELSE {}) \cup (IF values.dryRun THEN {Out.result} ELSE {}))
    /\ IF values.dryRun THEN Exit(0) ELSE pc' = "dispatch" /\ UNCHANGED exitCode
    /\ UNCHANGED <<values, positionals, appName, targetDirectory, createOption, templateType, trace>>
    /\ FrameIp

\* if (createOption === "monorepo") createMonorepo(...) else createWebOnlyApp(...)
Dispatch ==
    /\ pc = "dispatch"
    /\ Say({Out.info})
    /\ IF createOption = "monorepo"
       THEN pc' = "createMonorepo" /\ Emit(Ev("call", "createMonorepo", cwd))
       ELSE pc' = "createWebOnlyApp" /\ Emit(Ev("call", "createWebOnlyApp", cwd))
    /\ ip' = 1
    /\ UNCHANGED <<values, positionals, appName, targetDirectory, createOption, templateType, exitCode>>
    /\ Frame

\* the generator returned: outro / success line, then the script ends
Finish ==
    /\ pc = "outro"
    /\ Say({Out.info} \cup (IF ~values.quiet THEN {} ELSE IF values.verbose THEN {Out.verbose} ELSE {}))
    /\ Exit(0)
    /\ UNCHANGED <<values, positionals, appName, targetDirectory, createOption, templateType, trace>>
    /\ FrameIp

(***************************************************************************)
(* src/utils.ts: the step library.  Every function is an operator of its   *)
(* arguments and of the outcome `o` the environment gives it; it yields    *)
(* the operations it performs (ev), what the caller sees (ret: "true",     *)
(* "false", "void" or "throw") and the paths its subprocesses create (out).*)
(***************************************************************************)
R(ev, ret, out) == [ev |-> ev, ret |-> ret, out |-> out]

Exec(cmd, at) == Ev("exec", cmd, at)
Write(path) == Ev("write", "", path)
Mkdir(path) == Ev("mkdir", "", path)
Unlink(path) == Ev("unlink", "", path)

\* if (!existsSync(dir)) mkdirSync(dir, { recursive: true })
EnsureDir(dir) == IF existsSync(dir) THEN <<>> ELSE <<Mkdir(dir)>>

\* a run of filesystem operations of which the k-th throws (k = 0: none does)
FsOps(evs, k) == IF k = 0 THEN R(evs, "void", {}) ELSE R(SubSeq(evs, 1, k - 1), "throw", {})

\* what the external tools leave behind when they succeed
RunOutputs(cmd, at) ==
    CASE cmd = "mkdir -p ${appName}" -> IF appName = "" THEN {} ELSE {resolve(at, appName)}
      [] cmd = "mkdir -p apps/web apps/mobile" -> {at \o <<"apps">>, at \o <<"apps", "web">>, at \o <<"apps", "mobile">>}
      [] cmd = "npx create-next-app@latest ${appName}" ->
            IF appName = "" THEN {} ELSE {resolve(at, appName), resolve(at, appName) \o <<"package.json">>, resolve(at, appName) \o <<"src">>}
      [] cmd = "npx create-next-app@latest apps/web" -> {at \o <<"apps", "web">>, at \o <<"apps", "web", "package.json">>, at \o <<"apps", "web", "src">>}
      [] cmd = "npx create-expo-app@latest mobile" -> {at \o <<"mobile">>, at \o <<"mobile", "package.json">>, at \o <<"mobile", "app.json">>}
      [] cmd = "npx supabase init" -> {at \o <<"supabase">>, at \o <<"supabase", "config.toml">>}
      [] cmd = "mkdir -p app" -> {at \o <<"app">>}
      [] OTHER -> {}

\* `mkdir -p` without an operand exits non-zero
CanSucceed(cmd) == ~(cmd = "mkdir -p ${appName}" /\ appName = "")

\* the entry file create-expo-app leaves when it installs a template
\* without a router
BlankTemplate(cmd, at) == IF cmd = "npx create-expo-app@latest mobile" THEN {at \o <<"mobile", "App.js">>} ELSE {}

\* runCommand(command, { cwd }): execSync inside try/catch, true or false
runCommand(cmd, at, o) ==
    CASE o = "ok" -> R(<<Exec(cmd, at)>>, "true", RunOutputs(cmd, at))
      [] o = "okBlankTemplate" -> R(<<Exec(cmd, at)>>, "true", RunOutputs(cmd, at) \cup BlankTemplate(cmd, at))
      [] OTHER -> R(<<Exec(cmd, at)>>, "false", {})

\* execSync(command, { cwd }) called directly: a non-zero exit throws
execSync(cmd, at, o) ==
    IF o = "ok" THEN R(<<Exec(cmd, at)>>, "void", RunOutputs(cmd, at))
    ELSE R(<<Exec(cmd, at)>>, "throw", {})

\* detectPackageManager(): lock files in the current directory, else probes
detectPackageManager(o) ==
    IF \/ existsSync(cwd \o <<"pnpm-lock.yaml">>)
       \/ existsSync(cwd \o <<"yarn.lock">>)
       \/ existsSync(cwd \o <<"package-lock.json">>)
    THEN R(<<>>, "void", {})
    ELSE IF o = "pnpm" THEN R(<<Exec("pnpm --version", cwd)>>, "void", {})
    ELSE R(<<Exec("pnpm --version", cwd), Exec("yarn --version", cwd)>>, "void", {})

\* setupSupabase(projectPath)
setupSupabase(path, o) ==
    LET r == runCommand("npx supabase init", path, o)
    IN IF r.ret = "false" THEN R(r.ev, "false", {}) ELSE R(r.ev, "true", r.out)

\* setupShadcn(projectPath, addAllComponents)
setupShadcn(path, addAll, o) ==
    LET init == Exec("pnpm dlx shadcn@latest init", path)
        add == Exec("pnpm dlx shadcn@latest add --all", path)
    IN IF o = "initFails" THEN R(<<init>>, "false", {})
       ELSE IF addAll THEN R(<<init, add>>, "true", {})
       ELSE R(<<init>>, "true", {})

setupShadcnOutcomes(addAll) == IF addAll THEN {"ok", "initFails", "addFails"} ELSE {"ok", "initFails"}

\* createEnvFile(projectPath, isExpoApp)
createEnvFile(path, isExpoApp, k) ==
    FsOps(<<Write(path \o (IF isExpoApp THEN <<".env">> ELSE <<".env.local">>))>>, k)

\* createSupabaseClient(projectPath, isExpoApp)
createSupabaseClientOps(path, isExpoApp) ==
    LET libDir == path \o <<"lib">>
    IN EnsureDir(libDir) \o
       (IF isExpoApp THEN <<Write(libDir \o <<"supabase.ts">>)>>
        ELSE <<Write(libDir \o <<"supabaseAdminClient.ts">>), Write(libDir \o <<"supabaseBrowserClient.ts">>),
               Write(libDir \o <<"supabaseServerClient.ts">>), Write(libDir \o <<"supabase.ts">>)>>)

createSupabaseClient(path, isExpoApp, k) == FsOps(createSupabaseClientOps(path, isExpoApp), k)

\* createNextjsMiddleware(projectPath)
createNextjsMiddleware(path, k) == FsOps(<<Write(path \o <<"middleware.ts">>)>>, k)

\* createCoolifyConfig(projectPath, appName)
createCoolifyConfig(path, k) == FsOps(<<Write(path \o <<"COOLIFY_DEPLOYMENT.md">>)>>, k)

\* createPnpmWorkspace(projectPath)
createPnpmWorkspaceOps(path) ==
    <<Write(path \o <<"pnpm-workspace.yaml">>), Write(path \o <<"package.json">>), Write(path \o <<".npmrc">>)>>

createPnpmWorkspace(path, k) == FsOps(createPnpmWorkspaceOps(path), k)

\* createSharedPackage(projectPath)
createSharedPackageOps(path) ==
    LET sharedDir == path \o <<"packages", "shared">>
        srcDir == sharedDir \o <<"src">>
    IN <<Mkdir(sharedDir), Mkdir(srcDir), Write(sharedDir \o <<"package.json">>), Write(srcDir \o <<"index.ts">>),
         Write(srcDir \o <<"types.ts">>), Write(srcDir \o <<"utils.ts">>), Write(sharedDir \o <<"tsconfig.json">>)>>

createSharedPackage(path, k) == FsOps(createSharedPackageOps(path), k)

\* configureNextjsForMonorepo(nextjsPath)
configureNextjsForMonorepoOps(path) == <<Write(path \o <<"next.config.js">>), Write(path \o <<"tsconfig.json">>)>>

configureNextjsForMonorepo(path, k) == FsOps(configureNextjsForMonorepoOps(path), k)

\* configureExpoForMonorepo(expoPath)
configureExpoForMonorepoOps(path) == <<Write(path \o <<"tsconfig.json">>), Write(path \o <<"metro.config.js">>)>>

configureExpoForMonorepo(path, k) == FsOps(configureExpoForMonorepoOps(path), k)

\* createRootTsConfig(projectPath)
createRootTsConfig(path, k) == FsOps(<<Write(path \o <<"tsconfig.json">>)>>, k)

\* setupSupabaseTypes(projectPath, isExpoApp)
setupSupabaseTypesOps(path) ==
    EnsureDir(path \o <<"types">>) \o <<Write(path \o <<"types", "database.types.ts">>)>>

setupSupabaseTypes(path, k) == FsOps(setupSupabaseTypesOps(path), k)

\* updatePackageJsonScripts(projectPath, isExpoApp, isMonorepoRoot): returns
\* without touching anything when there is no package.json
updatePackageJsonScriptsOps(path) ==
    IF existsSync(path \o <<"package.json">>) THEN <<Write(path \o <<"package.json">>)>> ELSE <<>>

updatePackageJsonScripts(path, k) == FsOps(updatePackageJsonScriptsOps(path), k)

\* createProjectReadme(projectPath, projectName, isMonorepo, templateType)
createProjectReadme(path, k) == FsOps(<<Write(path \o <<"README.md">>)>>, k)

\* createProjectClaudeMd(projectPath, projectName, isMonorepo, templateType)
createProjectClaudeMd(path, k) == FsOps(<<Write(path \o <<"CLAUDE.md">>)>>, k)

\* writeFileSync(join(projectPath, 'next.config.js'), nextConfigContent)
writeNextConfig(path, k) == FsOps(<<Write(path \o <<"next.config.js">>)>>, k)

\* createSupabaseMigration(projectPath)
MigrationFile(path) == path \o <<"supabase", "migrations", "<timestamp>_initial_setup.sql">>

\* file names a migrations directory may hold, in the order of
\* Array.prototype.sort() (UTF-16 code units: digits before letters); the
\* new file's timestamp is the current time, later than the 2024 ones
SortedNames ==
    <<"20240101000000_initial_setup.sql", "20240301000000_add_posts.sql",
      "<timestamp>_initial_setup.sql", "backup_initial_setup.sql">>

\* readdirSync(migrationsDir).filter(...).sort().reverse(), once the CLI has
\* created the new file
migrationFiles(path) ==
    LET migrationsDir == path \o <<"supabase", "migrations">>
        IncludesInitialSetup(file) == file # "20240301000000_add_posts.sql"  \* file.includes('initial_setup.sql')
        found == SelectSeq(SortedNames, LAMBDA file :
                     /\ existsSync(migrationsDir \o <<file>>) \/ migrationsDir \o <<file>> = MigrationFile(path)
                     /\ IncludesInitialSetup(file))
    IN [i \in 1..Len(found) |-> migrationsDir \o <<found[Len(found) + 1 - i]>>]

createSupabaseMigration(path, o) ==
    LET new == Exec("npx supabase migration new initial_setup", path)
    IN CASE o = "cmdFails" -> R(<<new>>, "false", {})
         [] o = "readdirThrows" -> R(<<new>>, "throw", {})
         [] o = "noMatch" -> R(<<new>>, "false", {path \o <<"supabase", "migrations">>})
         [] o = "writeThrows" -> R(<<new>>, "throw", {path \o <<"supabase", "migrations">>, MigrationFile(path)})
         [] OTHER -> R(<<new, Write(migrationFiles(path)[1])>>, "true", {path \o <<"supabase", "migrations">>, MigrationFile(path)})

createSupabaseMigrationOutcomes == {"ok", "cmdFails", "readdirThrows", "noMatch", "writeThrows"}

\* updateSupabaseConfig(projectPath): false when config.toml is missing or
\* when reading, patching or writing it throws
updateSupabaseConfig(path, o) ==
    LET configPath == path \o <<"supabase", "config.toml">>
    IN IF ~existsSync(configPath) THEN R(<<>>, "false", {})
       ELSE IF o = "ok" THEN R(<<Write(configPath)>>, "true", {})
       ELSE R(<<>>, "false", {})

\* setupLegendState without its try/catch
setupLegendState_Uncaught(path, isExpoApp, o) ==
    LET install == Exec(IF isExpoApp THEN "npx expo install @legendapp/state uuid react-native-mmkv" ELSE "pnpm add @legendapp/state uuid", path)
    IN IF o = "ok"
       THEN R(<<install>> \o EnsureDir(path \o <<"stores">>) \o <<Write(path \o <<"stores", "userStore.ts">>)>>
                \o EnsureDir(path \o <<"types">>) \o <<Write(path \o <<"types", "supabase.ts">>)>>, "true", {})
       ELSE R(<<install>>, "throw", {})

\* setupLegendState(projectPath, isExpoApp): try { ... } catch { return false }
setupLegendState(path, isExpoApp, o) ==
    LET install == Exec(IF isExpoApp THEN "npx expo install @legendapp/state uuid react-native-mmkv" ELSE "pnpm add @legendapp/state uuid", path)
    IN CASE o = "installFails" -> R(<<install>>, "false", {})
         [] o = "fsError" -> R(<<install>>, "false", {})
         [] OTHER -> R(<<install>> \o EnsureDir(path \o <<"stores">>) \o <<Write(path \o <<"stores", "userStore.ts">>)>>
                       \o EnsureDir(path \o <<"types">>) \o <<Write(path \o <<"types", "supabase.ts">>)>>, "true", {})

\* setupPrettierAndESLint(projectPath, isExpoApp): the install's result is
\* not looked at; try { ... } catch { return false }
setupPrettierAndESLint(path, isExpoApp, o) ==
    LET install == Exec(IF isExpoApp THEN "npx expo install eslint eslint-config-expo prettier --dev" ELSE "pnpm add --save-dev eslint-config-prettier eslint-plugin-prettier prettier", path)
    IN IF o = "fsError" THEN R(<<install>>, "false", {})
       ELSE R(<<install, Write(path \o <<".eslintrc.js">>), Write(path \o <<".prettierrc">>),
                Write(path \o <<".prettierignore">>), Write(path \o <<".eslintignore">>)>>, "true", {})

setupExpoRouter_RemovesAppJson(path, o) ==
    LET sdk == Exec("pnpm add expo@~52.0.0", path)
        router == Exec("npx expo install expo-router@latest", path)
        oldApp(file) == IF existsSync(path \o <<file>>) THEN <<Unlink(path \o <<file>>)>> ELSE <<>>
    IN CASE o = "sdkFails" -> R(<<sdk>>, "false", {})
         [] o = "routerFails" -> R(<<sdk, router>>, "false", {})
         [] o = "fsError" -> R(<<sdk, router>>, "false", {})
         [] OTHER -> R(<<sdk, router, Write(path \o <<"package.json">>), Exec("mkdir -p app", path),
                        Write(path \o <<"app", "_layout.tsx">>), Write(path \o <<"app", "index.tsx">>)>>
                       \o oldApp("app.json") \o <<Write(path \o <<"babel.config.js">>)>> \o oldApp("App.js") \o oldApp("App.tsx"),
                       "true", RunOutputs("mkdir -p app", path))

\* setupExpoRouter(projectPath): try { ... } catch { return false }
setupExpoRouter(path, o) ==
    LET sdk == Exec("pnpm add expo@~52.0.0", path)
        router == Exec("npx expo install expo-router@latest", path)
        appJson == IF existsSync(path \o <<"app.json">>) THEN <<Write(path \o <<"app.json">>)>> ELSE <<>>
        oldApp(file) == IF existsSync(path \o <<file>>) THEN <<Unlink(path \o <<file>>)>> ELSE <<>>
    IN CASE o = "sdkFails" -> R(<<sdk>>, "false", {})
         [] o = "routerFails" -> R(<<sdk, router>>, "false", {})
         [] o = "fsError" -> R(<<sdk, router>>, "false", {})
         [] OTHER -> R(<<sdk, router, Write(path \o <<"package.json">>), Exec("mkdir -p app", path),
                        Write(path \o <<"app", "_layout.tsx">>), Write(path \o <<"app", "index.tsx">>)>>
                       \o appJson \o <<Write(path \o <<"babel.config.js">>)>> \o oldApp("App.js") \o oldApp("App.tsx"),
                       "true", RunOutputs("mkdir -p app", path))

setupReactNativeReusables_NoFallback(path, o) ==
    R(<<Exec("pnpm dlx @react-native-reusables/cli@latest add --all", path)>>, IF o = "ok" THEN "true" ELSE "false", {})

\* setupReactNativeReusables(projectPath): the install-all CLI, and when it
\* fails the manual dependency set plus hand-written stubs
setupReactNativeReusables(path, o) ==
    LET cli == Exec("pnpm dlx @react-native-reusables/cli@latest add --all", path)
        manual == Exec("npx expo install nativewind tailwindcss class-variance-authority clsx tailwind-merge", path)
        uiDir == path \o <<"src", "components", "ui">>
    IN CASE o = "ok" -> R(<<cli>>, "true", {})
         [] o = "fallbackInstallFails" -> R(<<cli, manual>>, "false", {})
         [] o = "fallbackFsError" -> R(<<cli, manual>>, "false", {})
         [] OTHER -> R(<<cli, manual>> \o EnsureDir(path \o <<"src", "lib">>) \o <<Write(path \o <<"src", "lib", "utils.ts">>)>>
                       \o EnsureDir(uiDir) \o <<Write(uiDir \o <<"collapsible.tsx">>), Write(path \o <<"tailwind.config.js">>),
                                                  Write(path \o <<"global.css">>), Write(path \o <<"babel.config.js">>)>>, "true", {})

(***************************************************************************)
(* src/generators.ts: the two provisioning flows as their call sites in    *)
(* source order.  A site names the function called, the directory it works *)
(* in (cwd: process.cwd(); root: projectPath; web, mobile, apps: below     *)
(* projectPath), its argument, what the caller does with a false result    *)
(* and the template type the site is conditional on.                       *)
(***************************************************************************)
Site(fn, at, arg, onFalse, when) == [fn |-> fn, at |-> at, arg |-> arg, onFalse |-> onFalse, when |-> when]

\* createWebOnlyApp(appName, templateType, options)
FlowA == <<
    Site("detectPackageManager", "cwd", "", "ignore", "always"),
    Site("execSync", "cwd", "npx create-next-app@latest ${appName}", "throw", "always"),
    Site("chdir", "cwd", "", "throw", "always"),
    Site("projectPath", "cwd", "process.cwd()", "ignore", "always"),
    Site("setupSupabase", "root", "", "ignore", "always"),
    Site("runCommand", "cwd", "pnpm add @supabase/supabase-js @supabase/ssr server-only", "throw", "always"),
    Site("confirm", "cwd", "", "ignore", "opinionated"),
    Site("setupShadcn", "root", "addAllComponents", "ignore", "opinionated"),
    Site("runCommand", "cwd", "pnpm add zod", "ignore", "opinionated"),
    Site("createEnvFile", "root", "next", "ignore", "always"),
    Site("createSupabaseClient", "root", "next", "ignore", "always"),
    Site("createNextjsMiddleware", "root", "", "ignore", "always"),
    Site("setupSupabaseTypes", "root", "next", "ignore", "always"),
    Site("setupLegendState", "root", "next", "ignore", "opinionated"),
    Site("setupPrettierAndESLint", "root", "next", "ignore", "opinionated"),
    Site("createSupabaseMigration", "root", "", "ignore", "always"),
    Site("updateSupabaseConfig", "root", "", "ignore", "always"),
    Site("createCoolifyConfig", "root", "", "ignore", "always"),
    Site("updatePackageJsonScripts", "root", "next", "ignore", "always"),
    Site("createProjectReadme", "root", "", "ignore", "always"),
    Site("createProjectClaudeMd", "root", "", "ignore", "always"),
    Site("writeNextConfig", "root", "", "ignore", "always") >>

\* createMonorepo(appName, templateType, options)
FlowB == <<
    Site("projectPath", "cwd", "join(process.cwd(), appName)", "ignore", "always"),
    Site("runCommand", "cwd", "mkdir -p ${appName}", "throw", "always"),
    Site("chdir", "cwd", "", "throw", "always"),
    Site("createPnpmWorkspace", "root", "", "ignore", "always"),
    Site("createSharedPackage", "root", "", "ignore", "always"),
    Site("createRootTsConfig", "root", "", "ignore", "always"),
    Site("runCommand", "cwd", "mkdir -p apps/web apps/mobile", "ignore", "always"),
    Site("runCommand", "cwd", "npx create-next-app@latest apps/web", "throw", "always"),
    Site("setupSupabase", "web", "", "ignore", "always"),
    Site("setupShadcn", "web", "true", "ignore", "opinionated"),
    Site("runCommand", "web", "pnpm add zod @supabase/supabase-js @supabase/ssr server-only", "ignore", "opinionated"),
    Site("runCommand", "web", "pnpm add @supabase/supabase-js @supabase/ssr server-only", "ignore", "bare"),
    Site("createEnvFile", "web", "next", "ignore", "always"),
    Site("createSupabaseClient", "web", "next", "ignore", "always"),
    Site("createNextjsMiddleware", "web", "", "ignore", "always"),
    Site("setupSupabaseTypes", "web", "next", "ignore", "always"),
    Site("setupLegendState", "web", "next", "ignore", "opinionated"),
    Site("setupPrettierAndESLint", "web", "next", "ignore", "opinionated"),
    Site("configureNextjsForMonorepo", "web", "", "ignore", "always"),
    Site("runCommand", "apps", "npx create-expo-app@latest mobile", "throw", "always"),
    Site("setupExpoRouter", "mobile", "", "throw", "always"),
    Site("runCommand", "mobile", "npx expo install @supabase/supabase-js @react-native-async-storage/async-storage", "ignore", "always"),
    Site("setupReactNativeReusables", "mobile", "", "ignore", "opinionated"),
    Site("runCommand", "mobile", "npx expo install react-native-gesture-handler", "ignore", "opinionated"),
    Site("runCommand", "mobile", "npx expo install zod", "ignore", "opinionated"),
    Site("setupSupabase", "mobile", "", "ignore", "always"),
    Site("createEnvFile", "mobile", "expo", "ignore", "always"),
    Site("createSupabaseClient", "mobile", "expo", "ignore", "always"),
    Site("setupSupabaseTypes", "mobile", "expo", "ignore", "always"),
    Site("setupLegendState", "mobile", "expo", "ignore", "opinionated"),
    Site("setupPrettierAndESLint", "mobile", "expo", "ignore", "opinionated"),
    Site("configureExpoForMonorepo", "mobile", "", "ignore", "always"),
    Site("runCommand", "root", "pnpm install", "ignore", "always"),
    Site("createSupabaseMigration", "web", "", "ignore", "always"),
    Site("updateSupabaseConfig", "web", "", "ignore", "always"),
    Site("createCoolifyConfig", "root", "", "ignore", "always"),
    Site("updatePackageJsonScripts", "root", "root", "ignore", "always"),
    Site("updatePackageJsonScripts", "web", "next", "ignore", "always"),
    Site("updatePackageJsonScripts", "mobile", "expo", "ignore", "always"),
    Site("createProjectReadme", "root", "", "ignore", "always"),
    Site("createProjectClaudeMd", "root", "", "ignore", "always") >>

InFlow == pc \in {"createWebOnlyApp", "createMonorepo"}

Flow == IF pc = "createMonorepo" THEN FlowB ELSE FlowA

\* the call site control is at
Cur == Flow[ip]

Applies_Always(site) == TRUE

\* if (templateType === "opinionated") { ... } else { ... }
Applies(site) ==
    CASE site.when = "always" -> TRUE
      [] site.when = "opinionated" -> templateType = "opinionated"
      [] OTHER -> templateType # "opinionated"

\* the next call site the template type does not skip (Len + 1: none is left)
RECURSIVE NextIp(_, _)
NextIp(flow, i) ==
    IF i + 1 > Len(flow) THEN Len(flow) + 1
    ELSE IF Applies(flow[i + 1]) THEN i + 1
    ELSE NextIp(flow, i + 1)

\* the directory a site works in
SitePath ==
    CASE Cur.at = "cwd" -> cwd
      [] Cur.at = "root" -> projectPath
      [] Cur.at = "web" -> projectPath \o <<"apps", "web">>
      [] Cur.at = "mobile" -> projectPath \o <<"apps", "mobile">>
      [] OTHER -> projectPath \o <<"apps">>

At(fn) == InFlow /\ ip \in 1..Len(Flow) /\ Cur.fn = fn

\* control moves to the next call site, or the generator returns
Advance ==
    /\ IF NextIp(Flow, ip) > Len(Flow) THEN pc' = "outro" /\ ip' = 0 ELSE ip' = NextIp(Flow, ip) /\ UNCHANGED pc
    /\ UNCHANGED exitCode

PathsMade(evs) == {evs[i][3] : i \in {j \in 1..Len(evs) : evs[j][1] \in {"write", "mkdir"}}}
PathsRemoved(evs) == {evs[i][3] : i \in {j \in 1..Len(evs) : evs[j][1] = "unlink"}}

\* a caller that does not look at what the call returned
Aborts_IgnoresFalse(r) == r.ret = "throw"

\* whether the call at this site ends the generator with an exception
Aborts(r) == r.ret = "throw" \/ (r.ret = "false" /\ Cur.onFalse = "throw")

\* what a file holds: its layout and its entries.  A file written from a
\* template literal of the callee (args: the arguments the template depends
\* on) is "text"; a JSON file is "indent2", as JSON.stringify(value, null, 2)
\* leaves it, or "compact"; of a package.json the scripts are kept, in key
\* order
Text(fn, args) == [format |-> "text", entries |-> << <<fn, args>> >>]

\* the scripts of the three tables of updatePackageJsonScripts and of
\* rootPackageJson; of each table the keys dev, start, db:types and lint are
\* kept
FixedScripts(args) ==
    CASE args = "root" -> << <<"dev", "pnpm run --parallel dev">>, <<"start", "pnpm run --recursive start">>,
                             <<"db:types", "cd apps/web && pnpm run db:types && cd ../mobile && pnpm run db:types">>,
                             <<"lint", "pnpm run --recursive lint">> >>
      [] args = "expo" -> << <<"dev", "expo start">>, <<"start", "expo start">>,
                             <<"db:types", "cd ../web && npx supabase gen types typescript --local > ../mobile/types/database.types.ts">>,
                             <<"lint", "npx expo lint">> >>
      [] args = "rootPackageJson" -> << <<"dev", "pnpm run --parallel dev">>, <<"lint", "pnpm run --recursive lint">> >>
      [] OTHER -> << <<"dev", "next dev">>, <<"start", "next start">>,
                     <<"db:types", "npx supabase gen types typescript --local > types/database.types.ts">>,
                     <<"lint", "eslint .">> >>

MergeScripts_Appends(scripts, fixed) == scripts \o fixed

MergeScripts_KeepsExisting(scripts, fixed) ==
    scripts \o SelectSeq(fixed, LAMBDA e : e[1] \notin {scripts[i][1] : i \in 1..Len(scripts)})

\* { ...packageJson.scripts, <fixed keys> }: a key already present keeps its
\* place and takes the fixed value, the other fixed keys follow in order
MergeScripts(scripts, fixed) ==
    LET Fixed(key) == {j \in 1..Len(fixed) : fixed[j][1] = key}
        present == {scripts[i][1] : i \in 1..Len(scripts)}
    IN [i \in 1..Len(scripts) |->
            IF Fixed(scripts[i][1]) = {} THEN scripts[i]
            ELSE fixed[CHOOSE j \in Fixed(scripts[i][1]) : TRUE]]
       \o SelectSeq(fixed, LAMBDA e : e[1] \notin present)

\* config.toml as the patterns of updateSupabaseConfig see it: a sequence
\* of pieces <<kind, text>>.  The pieces of kind "header" ([section]) and
\* "list" ([...] value) begin with the character [ and are the only ones
\* that hold one; "site_url" is the field site_url = "<text>"; "key" is the
\* text `additional_redirect_urls = ` before its list; "line" is any other
\* field; "nl" is a line break.  The files drawn follow the layout of the
\* config.toml that `supabase init` writes: [auth] with site_url, with or
\* without the redirect list and the hook block, followed by [auth.email].
ConfigTexts ==
    LET nl == <<"nl", "">>
        auth == <<<<"header", "[auth]">>, nl, <<"site_url", "http://127.0.0.1:3000">>, nl>>
        redirect == <<<<"key", "additional_redirect_urls = ">>, <<"list", "[https://127.0.0.1:3000]">>, nl>>
        expiry == <<<<"line", "jwt_expiry = 3600">>, nl>>
        hook == <<<<"header", "[auth.hook.custom_access_token]">>, nl, <<"line", "enabled = false">>, nl>>
        email == <<<<"header", "[auth.email]">>, nl, <<"line", "enable_signup = true">>, nl>>
    IN {auth \o redirect \o expiry \o email,
        auth \o expiry \o email,
        auth \o redirect \o expiry \o hook \o email,
        auth \o expiry \o hook \o email,
        auth \o redirect \o expiry \o email \o hook}

\* updateSupabaseConfig: the three pattern substitutions on the text
patchConfig(config) ==
    LET nl == <<"nl", "">>
        Bracket(piece) == piece[1] \in {"header", "list"}
        First(S) == CHOOSE i \in S : \A j \in S : i <= j
        Last(S) == CHOOSE i \in S : \A j \in S : j <= i
        \* the end of the run [^[]* that starts after position a of text
        RunEnd(text, a) == Last({e \in a..Len(text) : \A k \in (a + 1)..e : ~Bracket(text[k])})
        Splice(text, from, to, new) == SubSeq(text, 1, from - 1) \o new \o SubSeq(text, to + 1, Len(text))
        \* configContent.replace(/site_url = "[^"]*"/, 'site_url = "http://localhost:3000"')
        sites == {i \in 1..Len(config) : config[i][1] = "site_url"}
        c1 == IF sites = {} THEN config
              ELSE Splice(config, First(sites), First(sites), <<<<"site_url", "http://localhost:3000">>>>)
        \* /additional_redirect_urls = \[[^\]]*\]/
        newRedirectUrls == <<<<"key", "additional_redirect_urls = ">>,
                             <<"list", "[http://localhost:3000, http://localhost:3000/api/auth/v1/callback]">>>>
        lists == {i \in 1..(Len(c1) - 1) : c1[i][1] = "key" /\ Bracket(c1[i + 1])}
        \* /(\[auth\][^[]*site_url = "[^"]*")/
        SitesOf(a) == {i \in (a + 1)..RunEnd(c1, a) : c1[i][1] = "site_url"}
        auths1 == {a \in 1..Len(c1) : c1[a] = <<"header", "[auth]">> /\ SitesOf(a) # {}}
        c2 == IF lists # {} THEN Splice(c1, First(lists), First(lists) + 1, newRedirectUrls)
              ELSE IF auths1 = {} THEN c1
              ELSE Splice(c1, Last(SitesOf(First(auths1))) + 1, Last(SitesOf(First(auths1))), <<nl>> \o newRedirectUrls)
        hookSection == <<nl, <<"header", "[auth.hook.custom_access_token]">>, nl, <<"line", "enabled = true">>, nl,
                         <<"line", "uri = pg-functions://postgres/public/custom_access_token_hook">>>>
        \* configContent.includes('[auth.hook.custom_access_token]')
        hooks == {i \in 1..Len(c2) : c2[i] = <<"header", "[auth.hook.custom_access_token]">>}
        auths2 == {a \in 1..Len(c2) : c2[a] = <<"header", "[auth]">>}
    IN \* /\[auth\.hook\.custom_access_token\][^[]*(?=\[|$)/ -> hookSection + '\n'
       IF hooks # {} THEN Splice(c2, First(hooks), RunEnd(c2, First(hooks)), hookSection \o <<nl>>)
       \* /(\[auth\][^[]*)/ -> `$1${hookSection}\n`
       ELSE IF auths2 # {} THEN Splice(c2, RunEnd(c2, First(auths2)) + 1, RunEnd(c2, First(auths2)), hookSection \o <<nl>>)
       ELSE c2

\* writeFileSync(path, data): what a call writes to a path
Written(step, path) ==
    CASE step.fn = "updatePackageJsonScripts" ->
            [format |-> "indent2",
             entries |-> MergeScripts(IF path \in DOMAIN contents THEN contents[path].entries ELSE <<>>,
                                      FixedScripts(step.args))]
      [] step.fn = "createPnpmWorkspace" /\ path[Len(path)] = "package.json" ->
            [format |-> "indent2", entries |-> FixedScripts("rootPackageJson")]
      [] step.fn = "updateSupabaseConfig" -> [format |-> "toml", entries |-> patchConfig(contents[path].entries)]
      [] OTHER -> Text(step.fn, step.args)

\* what a call at the current site writes to the terminal: the progress
\* lines of the generator and of the callee; for every command run through
\* runCommand (and the execSync of createWebOnlyApp) the echoed command line
\* and the subprocess's own output; console.error lines of a failure that
\* is caught; the report of an exception nobody catches
Says(r, o) ==
    {Out.info}
    \cup (IF Cur.fn # "detectPackageManager" /\ \E i \in 1..Len(r.ev) : r.ev[i][1] = "exec" THEN {Out.echo, Out.child} ELSE {})
    \cup (IF o # "ok" /\ r.ret # "throw" THEN {Out.error} ELSE {})
    \cup (IF o # "ok" /\ Cur.fn = "execSync" THEN {Out.error} ELSE {})
    \cup (IF Aborts(r) THEN {Out.uncaught} ELSE {})

\* a call that did not go well, as the run remembers it
Failure(o, ret, upto) == [flow |-> pc, ip |-> ip, fn |-> Cur.fn, arg |-> Cur.arg, o |-> o, ret |-> ret, upto |-> upto]

\* a call of the step library at the current site: r is what the callee did
\* and returned under the outcome o the environment gave it, cost the number
\* of failures it took from the run's budget
Call(r, o, cost) ==
    /\ nFailed + cost <= MaxFailures
    /\ nFailed' = nFailed + cost
    /\ trace' = trace \o r.ev
    /\ failures' = IF o = "ok" THEN failures ELSE Append(failures, Failure(o, r.ret, Len(trace) + Len(r.ev)))
    /\ Say(Says(r, o))
    /\ fs' = (fs \cup r.out \cup PathsMade(r.ev)) \ PathsRemoved(r.ev)
    /\ LET \* the manifests: the package.json an app generator creates holds the
           \* scripts of its template; createPnpmWorkspace and
           \* updatePackageJsonScripts write theirs
           Manifest(path) == path # <<>> /\ path[Len(path)] = "package.json"
           generated == IF Cur.arg = "npx create-expo-app@latest mobile"
                        THEN << <<"start", "expo start">>, <<"reset-project", "node ./scripts/reset-project.js">>,
                                <<"lint", "expo lint">> >>
                        ELSE << <<"dev", "next dev">>, <<"build", "next build">>, <<"lint", "next lint">> >>
           created == {path \in r.out : Manifest(path)}
           written == IF Cur.fn \in {"createPnpmWorkspace", "updatePackageJsonScripts"}
                      THEN {path \in PathsMade(r.ev) : Manifest(path)} ELSE {}
       IN contents' = [path \in DOMAIN contents \cup created \cup written |->
                          IF path \in written THEN Written([fn |-> Cur.fn, args |-> Cur.arg], path)
                          ELSE IF path \in created THEN [format |-> "indent2", entries |-> generated]
                          ELSE contents[path]]
    /\ IF Aborts(r) THEN Throw /\ UNCHANGED ip ELSE Advance
    /\ UNCHANGED <<argv, hist, cwd, values, positionals, appName, targetDirectory, createOption, templateType, projectPath, addAllComponents>>

Cost(o) == IF o = "ok" THEN 0 ELSE 1
FsCost(k) == IF k = 0 THEN 0 ELSE 1
FsOutcome(k) == IF k = 0 THEN "ok" ELSE "fsThrows"

DetectPackageManager ==
    /\ At("detectPackageManager")
    /\ \E o \in {"pnpm", "yarn"} : Call(detectPackageManager(o), "ok", IF o = "pnpm" THEN 0 ELSE 1)

ExecSync ==
    /\ At("execSync")
    /\ \E o \in {"ok", "fail"} : Call(execSync(Cur.arg, SitePath, o), o, Cost(o))

RunCommand ==
    /\ At("runCommand")
    /\ \/ CanSucceed(Cur.arg) /\ Call(runCommand(Cur.arg, SitePath, "ok"), "ok", 0)
       \/ BlankTemplate(Cur.arg, SitePath) # {} /\ Call(runCommand(Cur.arg, SitePath, "okBlankTemplate"), "ok", 0)
       \/ Call(runCommand(Cur.arg, SitePath, "fail"), "fail", IF CanSucceed(Cur.arg) THEN 1 ELSE 0)

Chdir_StaysPut ==
    /\ At("chdir")
    /\ Advance
    /\ UNCHANGED <<argv, contents, hist, fs, cwd, values, positionals, appName, targetDirectory, createOption, templateType,
                   projectPath, addAllComponents, trace, nFailed, failures, printed>>

\* process.chdir(appName): throws when the directory is not there
Chdir ==
    /\ At("chdir")
    /\ IF appName = "" \/ ~existsSync(resolve(cwd, appName))
       THEN /\ Throw
            /\ failures' = Append(failures, Failure("noDirectory", "throw", Len(trace)))
            /\ Say(IF pc = "createWebOnlyApp" THEN {Out.error, Out.uncaught} ELSE {Out.uncaught})
            /\ UNCHANGED <<cwd, trace, ip>>
       ELSE /\ cwd' = resolve(cwd, appName)
            /\ Emit(Ev("chdir", appName, resolve(cwd, appName)))
            /\ Advance
            /\ Say(IF pc = "createWebOnlyApp" THEN {Out.info} ELSE {})
            /\ UNCHANGED failures
    /\ UNCHANGED <<argv, contents, hist, fs, values, positionals, appName, targetDirectory, createOption, templateType, projectPath, addAllComponents, nFailed>>

\* const projectPath = process.cwd()  /  join(process.cwd(), appName)
SetProjectPath ==
    /\ At("projectPath")
    /\ projectPath' = IF Cur.arg = "process.cwd()" THEN cwd ELSE join(cwd, appName)
    /\ Advance
    /\ UNCHANGED <<argv, contents, hist, fs, cwd, values, positionals, appName, targetDirectory, createOption, templateType, addAllComponents, trace, nFailed, failures, printed>>

\* const addAllComponents = await confirm({...})
Confirm ==
    /\ At("confirm")
    /\ Emit(Ev("prompt", "confirm:addAllComponents", cwd))
    /\ Say({Out.prompt})
    /\ addAllComponents' \in {"true", "false", CancelSym}
    /\ Advance
    /\ UNCHANGED <<argv, contents, hist, fs, cwd, values, positionals, appName, targetDirectory, createOption, templateType, projectPath, nFailed, failures>>

SetupSupabase ==
    /\ At("setupSupabase")
    /\ \E o \in {"ok", "fail"} : Call(setupSupabase(SitePath, o), o, Cost(o))

\* if (addAllComponents) setupShadcn(p, true) else setupShadcn(p, false)
ShadcnAddAll == IF Cur.arg = "addAllComponents" THEN addAllComponents # "false" ELSE TRUE

SetupShadcn ==
    /\ At("setupShadcn")
    /\ \E o \in setupShadcnOutcomes(ShadcnAddAll) : Call(setupShadcn(SitePath, ShadcnAddAll, o), o, Cost(o))

CreateEnvFile ==
    /\ At("createEnvFile")
    /\ \E k \in 0..1 : Call(createEnvFile(SitePath, Cur.arg = "expo", k), FsOutcome(k), FsCost(k))

CreateSupabaseClient ==
    /\ At("createSupabaseClient")
    /\ \E k \in 0..Len(createSupabaseClientOps(SitePath, Cur.arg = "expo")) :
          Call(createSupabaseClient(SitePath, Cur.arg = "expo", k), FsOutcome(k), FsCost(k))

CreateNextjsMiddleware ==
    /\ At("createNextjsMiddleware")
    /\ \E k \in 0..1 : Call(createNextjsMiddleware(SitePath, k), FsOutcome(k), FsCost(k))

SetupSupabaseTypes ==
    /\ At("setupSupabaseTypes")
    /\ \E k \in 0..Len(setupSupabaseTypesOps(SitePath)) : Call(setupSupabaseTypes(SitePath, k), FsOutcome(k), FsCost(k))

SetupLegendState ==
    /\ At("setupLegendState")
    /\ \E o \in {"ok", "installFails", "fsError"} : Call(setupLegendState(SitePath, Cur.arg = "expo", o), o, Cost(o))

SetupPrettierAndESLint ==
    /\ At("setupPrettierAndESLint")
    /\ \E o \in {"ok", "installFails", "fsError"} : Call(setupPrettierAndESLint(SitePath, Cur.arg = "expo", o), o, Cost(o))

CreateSupabaseMigration ==
    /\ At("createSupabaseMigration")
    /\ \E o \in createSupabaseMigrationOutcomes : Call(createSupabaseMigration(SitePath, o), o, Cost(o))

UpdateSupabaseConfig ==
    /\ At("updateSupabaseConfig")
    /\ \E o \in {"ok", "error"} :
          Call(updateSupabaseConfig(SitePath, o), IF existsSync(SitePath \o <<"supabase", "config.toml">>) THEN o ELSE "noConfig",
               IF existsSync(SitePath \o <<"supabase", "config.toml">>) THEN Cost(o) ELSE 0)

CreateCoolifyConfig ==
    /\ At("createCoolifyConfig")
    /\ \E k \in 0..1 : Call(createCoolifyConfig(SitePath, k), FsOutcome(k), FsCost(k))

UpdatePackageJsonScripts ==
    /\ At("updatePackageJsonScripts")
    /\ \E k \in 0..Len(updatePackageJsonScriptsOps(SitePath)) : Call(updatePackageJsonScripts(SitePath, k), FsOutcome(k), FsCost(k))

CreateProjectReadme ==
    /\ At("createProjectReadme")
    /\ \E k \in 0..1 : Call(createProjectReadme(SitePath, k), FsOutcome(k), FsCost(k))

CreateProjectClaudeMd ==
    /\ At("createProjectClaudeMd")
    /\ \E k \in 0..1 : Call(createProjectClaudeMd(SitePath, k), FsOutcome(k), FsCost(k))

WriteNextConfig ==
    /\ At("writeNextConfig")
    /\ \E k \in 0..1 : Call(writeNextConfig(SitePath, k), FsOutcome(k), FsCost(k))

CreatePnpmWorkspace ==
    /\ At("createPnpmWorkspace")
    /\ IF existsSync(SitePath)
       THEN \E k \in 0..Len(createPnpmWorkspaceOps(SitePath)) : Call(createPnpmWorkspace(SitePath, k), FsOutcome(k), FsCost(k))
       ELSE Call(createPnpmWorkspace(SitePath, 1), FsOutcome(1), 0)

CreateSharedPackage ==
    /\ At("createSharedPackage")
    /\ \E k \in 0..Len(createSharedPackageOps(SitePath)) : Call(createSharedPackage(SitePath, k), FsOutcome(k), FsCost(k))

CreateRootTsConfig ==
    /\ At("createRootTsConfig")
    /\ \E k \in 0..1 : Call(createRootTsConfig(SitePath, k), FsOutcome(k), FsCost(k))

ConfigureNextjsForMonorepo ==
    /\ At("configureNextjsForMonorepo")
    /\ \E k \in 0..Len(configureNextjsForMonorepoOps(SitePath)) : Call(configureNextjsForMonorepo(SitePath, k), FsOutcome(k), FsCost(k))

ConfigureExpoForMonorepo ==
    /\ At("configureExpoForMonorepo")
    /\ \E k \in 0..Len(configureExpoForMonorepoOps(SitePath)) : Call(configureExpoForMonorepo(SitePath, k), FsOutcome(k), FsCost(k))

SetupExpoRouter ==
    /\ At("setupExpoRouter")
    /\ \E o \in {"ok", "sdkFails", "routerFails", "fsError"} : Call(setupExpoRouter(SitePath, o), o, Cost(o))

SetupReactNativeReusables ==
    /\ At("setupReactNativeReusables")
    /\ \E o \in {"ok", "fallback", "fallbackInstallFails", "fallbackFsError"} :
          Call(setupReactNativeReusables(SitePath, o), o, Cost(o))

Resolve ==
    \/ ParseArgs \/ HandleVersion \/ HandleHelp
    \/ ResolveAppName \/ PromptAppName \/ CheckAppNameCancel \/ DirectoryGuard
    \/ ResolveArchitecture \/ PromptArchitecture \/ ValidateArchitecture
    \/ ResolveTemplate \/ PromptTemplate \/ ValidateTemplate
    \/ DryRun \/ Dispatch \/ Finish

Provision ==
    \/ DetectPackageManager \/ ExecSync \/ RunCommand \/ Chdir \/ SetProjectPath \/ Confirm
    \/ SetupSupabase \/ SetupShadcn \/ CreateEnvFile \/ CreateSupabaseClient \/ CreateNextjsMiddleware
    \/ SetupSupabaseTypes \/ SetupLegendState \/ SetupPrettierAndESLint \/ CreateSupabaseMigration
    \/ UpdateSupabaseConfig \/ CreateCoolifyConfig \/ UpdatePackageJsonScripts \/ CreateProjectReadme
    \/ CreateProjectClaudeMd \/ WriteNextConfig \/ CreatePnpmWorkspace \/ CreateSharedPackage
    \/ CreateRootTsConfig \/ ConfigureNextjsForMonorepo \/ ConfigureExpoForMonorepo
    \/ SetupExpoRouter \/ SetupReactNativeReusables

Next == Resolve \/ Provision

Spec == Init /\ [][Next]_vars

(***************************************************************************)
(* The file-writing steps on their own: each is a function of the project *)
(* directory it is given.  StepSpec applies them, in any order and         *)
(* repeatedly, to project directories that already hold files, and keeps   *)
(* what the files hold.                                                    *)
(***************************************************************************)
MaxApplications == 2

StepRoot == <<"proj">>

\* the calls of the file-writing steps, by the arguments their output
\* depends on
StepCalls ==
    {[fn |-> fn, args |-> args] : fn \in {"createEnvFile", "createSupabaseClient", "setupSupabaseTypes"},
                                  args \in {"next", "expo"}}
    \cup {[fn |-> "updatePackageJsonScripts", args |-> args] : args \in {"next", "expo", "root"}}
    \cup {[fn |-> fn, args |-> args] : fn \in {"createProjectReadme", "createProjectClaudeMd"},
                                      args \in {"monorepo, bare", "single, opinionated"}}
    \cup {[fn |-> fn, args |-> ""] : fn \in {"createNextjsMiddleware", "createCoolifyConfig",
                                            "createPnpmWorkspace", "createSharedPackage"}}

\* the operations of a call on StepRoot, the disk behaving;
\* JSON.parse(readFileSync(packageJsonPath)) throws on a file that is not JSON
StepResult(step) ==
    LET Parses(path) == path \in DOMAIN contents => contents[path].format # "text"
    IN
    CASE step.fn = "createEnvFile" -> createEnvFile(StepRoot, step.args = "expo", 0)
      [] step.fn = "createSupabaseClient" -> createSupabaseClient(StepRoot, step.args = "expo", 0)
      [] step.fn = "setupSupabaseTypes" -> setupSupabaseTypes(StepRoot, 0)
      [] step.fn = "createNextjsMiddleware" -> createNextjsMiddleware(StepRoot, 0)
      [] step.fn = "createCoolifyConfig" -> createCoolifyConfig(StepRoot, 0)
      [] step.fn = "createPnpmWorkspace" -> createPnpmWorkspace(StepRoot, 0)
      [] step.fn = "createSharedPackage" -> createSharedPackage(StepRoot, 0)
      [] step.fn = "createProjectReadme" -> createProjectReadme(StepRoot, 0)
      [] step.fn = "createProjectClaudeMd" -> createProjectClaudeMd(StepRoot, 0)
      [] OTHER -> updatePackageJsonScripts(StepRoot, IF Parses(StepRoot \o <<"package.json">>) THEN 0 ELSE 1)

\* the effect of a call: a written path holds what the call wrote, a file
\* a subprocess of the call created is empty (created), every other file
\* is as it was
Applied(step, r, created) ==
    LET written == {r.ev[i][3] : i \in {j \in 1..Len(r.ev) : r.ev[j][1] = "write"}}
        files == [path \in DOMAIN contents \cup created \cup written |->
                     IF path \in written THEN Written(step, path)
                     ELSE IF path \in DOMAIN contents THEN contents[path]
                     ELSE Text("", "")]
        after == [fs |-> fs \cup r.out \cup PathsMade(r.ev), contents |-> files]
    IN /\ fs' = after.fs
       /\ contents' = after.contents
       /\ hist' = Append(hist, [step |-> step, ret |-> r.ret, before |-> [fs |-> fs, contents |-> contents], after |-> after])
       /\ UNCHANGED <<argv, cwd, pc, values, positionals, appName, targetDirectory, createOption, templateType,
                      projectPath, ip, addAllComponents, trace, nFailed, failures, printed, exitCode>>

ApplyStep ==
    /\ pc = "steps"
    /\ Len(hist) < MaxApplications
    /\ \E step \in StepCalls : Applied(step, StepResult(step), {})

\* createSupabaseMigration(StepRoot), at a time whose timestamp no file of
\* the directory carries yet; `supabase migration new` creates the file empty
ApplyMigration ==
    /\ pc = "steps"
    /\ Len(hist) < MaxApplications
    /\ ~existsSync(MigrationFile(StepRoot))
    /\ \E o \in {"ok", "cmdFails", "noMatch"} :
          Applied([fn |-> "createSupabaseMigration", args |-> ""], createSupabaseMigration(StepRoot, o),
                  IF o = "ok" THEN {MigrationFile(StepRoot)} ELSE {})

\* updateSupabaseConfig(StepRoot) on a project that holds a config.toml
ApplyConfig ==
    /\ pc = "steps"
    /\ Len(hist) < MaxApplications
    /\ existsSync(StepRoot \o <<"supabase", "config.toml">>)
    /\ Applied([fn |-> "updateSupabaseConfig", args |-> ""], updateSupabaseConfig(StepRoot, "ok"), {})

\* project directories as a run may find them: a package.json that is
\* absent, not JSON, or JSON in some layout with or without scripts of its
\* own; a README.md from before; a migrations directory with files from
\* before; or else a config.toml as `supabase init` left it
StepInit ==
    /\ pc = "steps"
    /\ \E packageJson \in {<<>>, <<Text("", "")>>, <<[format |-> "compact", entries |-> <<>>]>>,
                           <<[format |-> "compact", entries |-> << <<"dev", "vite">>, <<"deploy", "./deploy.sh">> >>]>>},
          readme \in {<<>>, <<Text("README.md", "by hand")>>},
          config \in {<<>>} \cup {<<[format |-> "toml", entries |-> text]>> : text \in ConfigTexts},
          old \in SUBSET {file \in {SortedNames[i] : i \in 1..Len(SortedNames)} :
                              StepRoot \o <<"supabase", "migrations", file>> # MigrationFile(StepRoot)} :
          LET files == {<<StepRoot \o <<"package.json">>, packageJson>>, <<StepRoot \o <<"README.md">>, readme>>,
                        <<StepRoot \o <<"supabase", "config.toml">>, config>>}
                       \cup {<<StepRoot \o <<"supabase", "migrations", file>>, <<Text(file, "")>> >> : file \in old}
              held == {e \in files : e[2] # <<>>}
          IN /\ config # <<>> => (packageJson = <<>> /\ readme = <<>> /\ old = {})
             /\ contents = [path \in {e[1] : e \in held} |-> (CHOOSE e \in held : e[1] = path)[2][1]]
             /\ fs = {InitialCwd, StepRoot, StepRoot \o <<"supabase">>, StepRoot \o <<"supabase", "migrations">>}
                     \cup {e[1] : e \in held}
    /\ hist = <<>>
    /\ argv = <<>> /\ cwd = InitialCwd /\ values = NoValues /\ positionals = <<>>
    /\ appName = Undefined /\ targetDirectory = NoPath /\ createOption = Undefined /\ templateType = Undefined
    /\ projectPath = StepRoot /\ ip = 0 /\ addAllComponents = Undefined
    /\ trace = <<>> /\ nFailed = 0 /\ failures = <<>> /\ printed = {} /\ exitCode = Running

StepNext == ApplyStep \/ ApplyMigration \/ ApplyConfig

StepSpec == StepInit /\ [][StepNext]_vars

(***************************************************************************)
(* Vocabulary of the properties.                                           *)
(***************************************************************************)
\* positions of the trace holding an operation of one of the kinds
Ops(kinds) == {i \in 1..Len(trace) : trace[i][1] \in kinds}

\* no interactive prompt (text, select, confirm) has been rendered
NoPrompt == Ops({"prompt"}) = {}

\* no file or directory written or removed, no subprocess started, no chdir
NoProvisioningStep == Ops({"exec", "write", "mkdir", "unlink", "chdir"}) = {} /\ cwd = InitialCwd

\* createMonorepo or createWebOnlyApp has been called
FlowEntered == Ops({"call"}) # {}

\* the Directory Guard's existence check has been made
GuardReached == Ops({"existsSync"}) # {}

\* the Directory Guard found the target directory in place
Collision == \E i \in Ops({"existsSync"}) : trace[i][2] = "true"

\* what the command line supplies, as the parser reads it
Given == parseArgs(argv)
GivenName == IF Len(Given.positionals) = 0 THEN Undefined ELSE Given.positionals[1]

Exited == pc = "exited"

\* every axis has been resolved to a valid value
ResolvedValid ==
    /\ Truthy(appName) /\ ~isCancel(appName)
    /\ createOption \in {"monorepo", "nextjs-only"}
    /\ templateType \in {"bare", "opinionated"}

(***************************************************************************)
(* C1                                                                      *)
(***************************************************************************)
\* C1, as stated: in quiet mode with an axis (project name, architecture,
\* template type) not supplied on the command line, the run ends with exit
\* code 1 before any prompt, file write or subprocess.
C1_QuietMissingAxisExits1 ==
    (Given.ok /\ Given.values.quiet
        /\ (GivenName = Undefined \/ Given.values.architecture = Undefined \/ Given.values.template = Undefined))
    => /\ NoPrompt
       /\ NoProvisioningStep
       /\ (Exited => exitCode = 1)

\* C1, amended: in quiet mode with neither --version nor --help given, an
\* axis that is not supplied (or supplied empty) ends the run with exit code
\* 1 before any prompt is rendered, before any file is written or
\* subprocess started and before either generator is entered; the run never
\* gets as far as the dry-run check.
C1_QuietMissingAxisExits1UnlessHelpOrVersion ==
    (Given.ok /\ Given.values.quiet /\ ~Given.values.version /\ ~Given.values.help
        /\ (~Truthy(GivenName) \/ ~Truthy(Given.values.architecture) \/ ~Truthy(Given.values.template)))
    => /\ NoPrompt
       /\ NoProvisioningStep
       /\ ~FlowEntered
       /\ pc \in {"parseArgs", "version", "help", "appName", "appNameCancel", "directoryGuard", "architecture",
                  "architectureValidate", "template", "exited"}
       /\ (Exited => exitCode = 1)

\* a quiet run with name and template given stopped at the missing architecture
C1_Witness ==
    /\ Exited /\ exitCode = 1
    /\ values.quiet /\ ~values.help /\ ~values.version
    /\ Truthy(appName) /\ values.architecture = Undefined /\ Truthy(values.template)
    /\ GuardReached /\ ~Collision

(***************************************************************************)
(* C2                                                                      *)
(***************************************************************************)
\* C2: with --dry-run the run writes nothing, starts no subprocess, leaves
\* the working directory alone and enters neither generator; once the three
\* axes are resolved to valid values (the Directory Guard passed), it ends
\* with exit code 0.
C2_DryRunDoesNothing ==
    (Given.ok /\ Given.values.dryRun)
    => /\ NoProvisioningStep
       /\ ~FlowEntered
       /\ pc \notin {"dispatch", "createWebOnlyApp", "createMonorepo", "outro"}
       /\ (Exited /\ ResolvedValid => exitCode = 0)

\* a dry run of a valid configuration has ended, the guard having passed
C2_Witness ==
    /\ Exited /\ exitCode = 0
    /\ values.dryRun /\ ~values.help /\ ~values.version
    /\ ResolvedValid /\ GuardReached /\ targetDirectory \notin fs

(***************************************************************************)
(* C3                                                                      *)
(***************************************************************************)
\* C3: whenever the Directory Guard finds the target directory
\* join(cwd, appName) in place and --force is not given, the run has ended
\* with exit code 1 and no provisioning step of either flow has executed;
\* quiet, interactive and dry-run runs alike.
C3_CollisionWithoutForceAborts ==
    (Collision /\ ~values.force)
    => /\ Exited /\ exitCode = 1
       /\ NoProvisioningStep
       /\ ~FlowEntered
       /\ createOption = Undefined /\ templateType = Undefined

\* an interactive dry run with every axis given stopped at the existing directory
C3_Witness ==
    /\ Exited /\ exitCode = 1
    /\ Collision /\ ~values.force /\ ~values.quiet /\ values.dryRun
    /\ targetDirectory = <<"myapp">>
    /\ values.architecture = "monorepo" /\ values.template = "bare"

(***************************************************************************)
(* C4                                                                      *)
(***************************************************************************)
\* C4, as stated: once the Directory Guard has found the target directory in
\* place with --force given, the run always goes into step 1 of the flow
\* chosen by the architecture axis: a run that resolved its axes to valid
\* values does not end without having entered it.
C4_ForcedRunReachesFlow ==
    (Collision /\ values.force /\ Exited /\ ResolvedValid) => FlowEntered

\* the generator the architecture axis selects
ChosenFlow == IF createOption = "monorepo" THEN "createMonorepo" ELSE "createWebOnlyApp"

\* C4, amended: with the target directory in place and --force given, the
\* Directory Guard does not stop the run (control goes on to the
\* architecture axis), and whenever the architecture and template type then
\* resolve to valid values and --dry-run is not given, the run goes into
\* step 1 of the flow chosen by the architecture axis.
C4_ForceLetsTheRunThrough ==
    /\ []((Collision /\ values.force /\ Exited /\ ResolvedValid /\ ~values.dryRun) => FlowEntered)
    /\ []((Collision /\ values.force /\ FlowEntered)
            => \A i \in Ops({"call"}) : trace[i][2] = ChosenFlow)
    /\ [][(pc = "directoryGuard" /\ appName # Undefined /\ existsSync(join(cwd, appName)) /\ values.force)
            => (pc' = "architecture" /\ exitCode' = Running)]_vars
    /\ [][(Collision /\ values.force /\ pc = "dispatch") => (pc' = ChosenFlow /\ ip' = 1)]_vars

\* a forced run into an existing directory is at the first call site of its flow
C4_Witness ==
    /\ Collision /\ values.force
    /\ pc = "createMonorepo" /\ ip = 1
    /\ createOption = "monorepo"

(***************************************************************************)
(* C5                                                                      *)
(***************************************************************************)
\* an invalid enum value is supplied by flag for the architecture or the
\* template axis
InvalidEnumGiven ==
    /\ Given.ok
    /\ \/ Truthy(Given.values.architecture) /\ Given.values.architecture \notin {"monorepo", "nextjs-only"}
       \/ Truthy(Given.values.template) /\ Given.values.template \notin {"bare", "opinionated"}

\* the user dismissed a prompt
UserCancelled == Ops({"cancel"}) # {}

Prompted(name) == \E i \in Ops({"prompt"}) : trace[i][2] = name

\* C6: an axis whose value is supplied valid on the command line is never
\* prompted for.
C6_ValidFlagBypassesPrompt ==
    Given.ok
    => /\ (Truthy(GivenName) => ~Prompted("text:appName"))
       /\ (Given.values.architecture \in {"monorepo", "nextjs-only"} => ~Prompted("select:architecture"))
       /\ (Given.values.template \in {"bare", "opinionated"} => ~Prompted("select:template"))

\* an interactive run with all three axes given has reached the dispatch unprompted
C6_Witness ==
    /\ pc = "dispatch" /\ ~values.quiet
    /\ Truthy(GivenName) /\ Given.values.architecture = "nextjs-only" /\ Given.values.template = "opinionated"
    /\ NoPrompt

(***************************************************************************)
(* C7                                                                      *)
(***************************************************************************)
\* C7: a prompt dismissed by the user (name, architecture, template type or
\* the install-all-components confirm) ends the run at once with exit code
\* 0: the process has exited and nothing has happened after the prompt.
C7_CancelAbortsRun ==
    (UserCancelled \/ isCancel(addAllComponents))
    => /\ Exited /\ exitCode = 0
       /\ \A i \in Ops({"cancel"}) : i = Len(trace)

(***************************************************************************)
(* C8                                                                      *)
(***************************************************************************)
\* C8: in quiet mode no prompt is ever rendered, inside the flows included.
C8_QuietNeverPrompts == values.quiet => NoPrompt

(***************************************************************************)
(* C9                                                                      *)
(***************************************************************************)
\* C9: once the parser has yielded --version or --help the run ends with
\* exit code 0 before any axis is resolved, any prompt is rendered, the
\* directory is checked or anything is written or executed, whatever the
\* other flags, the missing axes and the directories in place.
C9_VersionAndHelpExit0 ==
    (values.version \/ values.help)
    => /\ pc \in {"version", "help", "exited"}
       /\ (Exited => exitCode = 0)
       /\ trace = <<>>
       /\ appName = Undefined /\ createOption = Undefined /\ templateType = Undefined /\ targetDirectory = NoPath
       /\ cwd = InitialCwd

\* quiet help with no axis given and the directory myapp in place exited 0
C9_Witness ==
    /\ Exited /\ exitCode = 0
    /\ values.help /\ ~values.version /\ values.quiet
    /\ values.architecture = Undefined /\ values.template = Undefined
    /\ <<"myapp">> \in fs

(***************************************************************************)
(* C10                                                                     *)
(***************************************************************************)
\* the command line carries a flag the option table does not know
UnknownFlagGiven == \E i \in 1..Len(argv) : argv[i] \in OptionLike /\ OptionName(argv[i]) = Undefined

\* C10, as stated: an unrecognized flag does not end the run at the parse
\* stage; the parse step hands over to configuration resolution.
C10_UnknownFlagIgnored ==
    [][(pc = "parseArgs" /\ UnknownFlagGiven) => pc' # "exited"]_vars

\* C10, amended: an unrecognized flag ends the run at the parse stage:
\* parseArgs throws, the process ends with exit code 1 and no flag or
\* positional is handed to configuration resolution.
C10_UnknownFlagEndsRunAtParse ==
    UnknownFlagGiven
    => /\ pc \in {"parseArgs", "exited"}
       /\ (Exited => exitCode = 1)
       /\ values = NoValues /\ positionals = <<>> /\ appName = Undefined
       /\ trace = <<>>

\* a command line with an unknown flag next to recognized ones ended at the parse
C10_Witness ==
    /\ Exited /\ exitCode = 1
    /\ UnknownFlagGiven
    /\ \E i \in 1..Len(argv) : argv[i] = "-q"
    /\ Len(argv) >= 3

(***************************************************************************)
(* C11                                                                     *)
(***************************************************************************)
\* the calls that did not go well, by what was called
FailedCalls(fns, args, outcomes) ==
    {i \in 1..Len(failures) : failures[i].fn \in fns /\ failures[i].arg \in args /\ failures[i].o \in outcomes}

\* the external web generator exited non-zero
WebGeneratorFailed ==
    FailedCalls({"execSync", "runCommand"}, {"npx create-next-app@latest ${appName}", "npx create-next-app@latest apps/web"}, {"fail"})

\* the failed call ended the run: exit code 1, nothing done after it
EndedRunAt(i) ==
    /\ Exited /\ exitCode = 1
    /\ i = Len(failures)
    /\ Len(trace) = failures[i].upto

\* C11: in either flow a web generator (create-next-app) that exits non-zero
\* ends the run there: nothing is executed, written or changed after it
\* (in createWebOnlyApp the working directory is still the initial one),
\* success is not reported and the exit code is 1.
C11_WebGeneratorFailureAborts ==
    \A i \in WebGeneratorFailed :
        /\ EndedRunAt(i)
        /\ trace[Len(trace)][1] = "exec" /\ trace[Len(trace)][2] = failures[i].arg
        /\ failures[i].flow = "createWebOnlyApp" => (cwd = InitialCwd /\ Ops({"write", "mkdir", "chdir"}) = {})

\* the monorepo flow stopped at its failed web generator, the workspace files already written
C11_Witness ==
    /\ WebGeneratorFailed # {}
    /\ createOption = "monorepo" /\ Exited /\ exitCode = 1
    /\ projectPath \o <<"pnpm-workspace.yaml">> \in fs
    /\ cwd = <<"myapp">>

(***************************************************************************)
(* C12                                                                     *)
(***************************************************************************)
\* `supabase init` exited non-zero
\* C12: in both flows a `supabase init` that exits non-zero aborts the flow:
\* no later step runs and the run ends with exit code 1.
C12_SupabaseInitRequired == \A i \in FailedCalls({"setupSupabase"}, {""}, {"fail"}) : EndedRunAt(i)

(***************************************************************************)
(* C13                                                                     *)
(***************************************************************************)
\* the migration command succeeded and the lookup found no file
\* C13: a migration lookup that finds no file is a required failure: the
\* remaining steps of the flow do not run and the run ends with exit code 1.
C13_MigrationLookupRequired == \A i \in FailedCalls({"createSupabaseMigration"}, {""}, {"noMatch"}) : EndedRunAt(i)

(***************************************************************************)
(* C14                                                                     *)
(***************************************************************************)
\* the steps whose failure is tolerated: UI-component install, store
\* scaffolding, lint/format scaffolding, backend config patch
NonRequired == {"setupShadcn", "setupLegendState", "setupPrettierAndESLint", "updateSupabaseConfig"}

\* something failed in this run, and only non-required steps did
OnlyNonRequiredFailed ==
    /\ failures # <<>>
    /\ \A i \in 1..Len(failures) : failures[i].fn \in NonRequired

\* C14: a failing non-required step never aborts the flow: control goes on
\* to the next call site of the flow (or the flow returns), and a run in
\* which only such steps failed ends reported as success, exit code 0.
C14_NonRequiredFailureTolerated ==
    /\ [](OnlyNonRequiredFailed => (Exited => exitCode = 0))
    /\ [][(InFlow /\ failures' # failures /\ failures'[Len(failures')].fn \in NonRequired)
            => (pc' # "exited" /\ (IF NextIp(Flow, ip) > Len(Flow) THEN pc' = "outro" ELSE pc' = pc /\ ip' = NextIp(Flow, ip)))]_vars
    /\ [][(pc = "outro" /\ OnlyNonRequiredFailed) => (pc' = "exited" /\ exitCode' = 0)]_vars

\* a web-only run whose store scaffolding failed has ended with exit code 0, the README written
C14_Witness ==
    /\ Exited /\ exitCode = 0
    /\ OnlyNonRequiredFailed /\ failures[1].fn = "setupLegendState" /\ failures[1].ret = "false"
    /\ createOption = "nextjs-only"
    /\ projectPath \o <<"README.md">> \in fs

\* C18: in quiet mode nothing informational is written at any point of the
\* run, provisioning included: no progress line, no echoed command line, no
\* subprocess output and no prompt; what remains is error lines on stderr,
\* the requested result (version, help hint, dry-run report) and, with
\* --verbose, the verbose result lines.
C18_QuietSuppressesOutput ==
    values.quiet => printed \cap {Out.info, Out.echo, Out.child, Out.prompt, Out.cancel} = {}

\* C17: every run that ends in success, whichever architecture and template
\* it was given, leaves README.md, CLAUDE.md, package.json and a types
\* directory directly under the project root.
C17_CommonFilesAtProjectRoot ==
    (Exited /\ exitCode = 0 /\ FlowEntered) =>
        \A name \in {"README.md", "CLAUDE.md", "package.json", "types"} :
            existsSync(join(InitialCwd, appName) \o <<name>>)

\* C19 as stated: the run is purely additive; no step of any run deletes a
\* file or a directory, the set of paths never shrinks.
C19_NeverDeletes == [][fs \subseteq fs']_vars

\* C19, amended: the only step that deletes anything is the Expo Router
\* setup of the monorepo flow, and it deletes nothing but the starter entry
\* file App.js / App.tsx of the mobile app; every other step only adds paths.
C19_OnlyStarterEntryFileRemoved ==
    [][\/ fs \subseteq fs'
       \/ /\ At("setupExpoRouter")
          /\ fs \ fs' \subseteq {SitePath \o <<file>> : file \in {"App.js", "App.tsx"}}
          /\ SitePath = join(InitialCwd, appName) \o <<"apps", "mobile">>]_vars

C19_Witness ==
    /\ \E i \in Ops({"unlink"}) : trace[i][3] = join(InitialCwd, appName) \o <<"apps", "mobile", "App.js">>
    /\ ~existsSync(join(InitialCwd, appName) \o <<"apps", "mobile", "App.js">>)
    /\ existsSync(join(InitialCwd, appName) \o <<"apps", "mobile", "app", "index.tsx">>)

\* the kinds of event before position i of the trace
Before(i) == {trace[j][1] : j \in 1..(i - 1)}

ProvisioningOps == {"call", "exec", "write", "mkdir", "unlink", "chdir"}

C15_OnlyNewMigrationRewritten ==
    \A i \in {j \in 1..Len(hist) : hist[j].step.fn = "createSupabaseMigration" /\ hist[j].ret = "true"} :
        /\ hist[i].after.contents[MigrationFile(StepRoot)] = Text("createSupabaseMigration", "")
        /\ \A path \in DOMAIN hist[i].before.contents : hist[i].after.contents[path] = hist[i].before.contents[path]

\* C16: each file-writing step is idempotent: applied a second time to the
\* directory its first application left, it changes neither the file tree
\* nor what any file holds.
C16_FileWriteStepsIdempotent ==
    \A i \in 1..(Len(hist) - 1) :
        (hist[i].step = hist[i + 1].step /\ hist[i].step \in StepCalls) => hist[i + 1].after = hist[i + 1].before

C16_Witness ==
    /\ Len(hist) = MaxApplications
    /\ hist[1].step = [fn |-> "updatePackageJsonScripts", args |-> "next"]
    /\ hist[2].step = hist[1].step
    /\ hist[1].after # hist[1].before
    /\ contents[StepRoot \o <<"package.json">>] =
          [format |-> "indent2", entries |-> << <<"dev", "next dev">>, <<"deploy", "./deploy.sh">> >> \o Tail(FixedScripts("next"))]

\* C21: in both flows the installation of the backend client library is a
\* required step: when the install command exits non-zero the flow aborts
\* at once and no later step runs, at the project root in the single-app
\* flow and at the nested web app path in the monorepo flow alike.
C21_BackendInstallRequired ==
    \A i \in FailedCalls({"runCommand"},
                         {"pnpm add @supabase/supabase-js @supabase/ssr server-only",
                          "pnpm add zod @supabase/supabase-js @supabase/ssr server-only"}, {"fail"}) :
        EndedRunAt(i)

\* C22: in the monorepo flow the workspace-wide dependency installation is
\* a required step: when it exits non-zero none of the migration, config
\* patch, deployment guide, manifest scripts, README and CLAUDE.md steps
\* runs and the run exits with code 1.
C22_WorkspaceInstallRequired ==
    \A i \in FailedCalls({"runCommand"}, {"pnpm install"}, {"fail"}) : EndedRunAt(i)

\* C23: in the monorepo flow with the opinionated template the fallback of
\* the mobile UI components (manual dependency install and hand-written
\* files) runs if and only if the one-shot install-all command failed; the
\* install-all command and the fallback are each attempted at most once;
\* and whatever the outcome of either, the flow goes on to its next step.
C23_MobileUiFallback ==
    /\ [](LET cli == {i \in Ops({"exec"}) : trace[i][2] = "pnpm dlx @react-native-reusables/cli@latest add --all"}
              manual == {i \in Ops({"exec"}) : trace[i][2] = "npx expo install nativewind tailwindcss class-variance-authority clsx tailwind-merge"}
          IN /\ Cardinality(cli) <= 1 /\ Cardinality(manual) <= 1
             /\ manual # {} <=> FailedCalls({"setupReactNativeReusables"}, {""},
                                            {"fallback", "fallbackInstallFails", "fallbackFsError"}) # {}
             /\ \A i \in manual : \E j \in cli : i = j + 1)
    /\ [][At("setupReactNativeReusables") =>
             /\ pc' = pc /\ ip' = NextIp(Flow, ip) /\ exitCode' = Running
             /\ trace'[Len(trace) + 1][2] = "pnpm dlx @react-native-reusables/cli@latest add --all"]_vars

C23_Witness ==
    /\ FailedCalls({"setupReactNativeReusables"}, {""}, {"fallbackInstallFails"}) # {}
    /\ templateType = "opinionated"
    /\ Exited /\ exitCode = 0
    /\ existsSync(projectPath \o <<"CLAUDE.md">>)

\* C24: updateSupabaseConfig patches in place, else inserts into [auth]: the
\* result holds exactly one redirect-URL field, the key directly followed by
\* its bracketed list, and the list is the new one; it holds exactly one
\* hook block, placed after every field of [auth] and with the new fields;
\* the site URL is the new one; every other section header and field is
\* unchanged, in order.
C24_PatchInPlaceElseInsert ==
    \A i \in {j \in 1..Len(hist) : hist[j].step.fn = "updateSupabaseConfig" /\ hist[j].ret = "true"} :
        LET before == hist[i].before.contents[StepRoot \o <<"supabase", "config.toml">>].entries
            after == hist[i].after.contents[StepRoot \o <<"supabase", "config.toml">>].entries
            Of(text, kinds) == {k \in 1..Len(text) : text[k][1] \in kinds}
            Other(piece) == piece \in {<<"header", "[auth]">>, <<"header", "[auth.email]">>,
                                       <<"line", "jwt_expiry = 3600">>, <<"line", "enable_signup = true">>}
            hooks == {k \in 1..Len(after) : after[k] = <<"header", "[auth.hook.custom_access_token]">>}
        IN /\ Cardinality(Of(after, {"key"})) = 1 /\ Cardinality(Of(after, {"list"})) = 1
           /\ \A k \in Of(after, {"key"}) :
                 k < Len(after) /\ after[k + 1] = <<"list", "[http://localhost:3000, http://localhost:3000/api/auth/v1/callback]">>
           /\ Cardinality(hooks) = 1
           /\ \A k \in hooks : \A l \in Of(after, {"key", "list", "site_url"}) : l < k
           /\ \A k \in Of(after, {"site_url"}) : after[k][2] = "http://localhost:3000"
           /\ SelectSeq(after, Other) = SelectSeq(before, Other)

\* C25: updateSupabaseConfig is idempotent: applied a second time to the
\* file its first application wrote, it leaves the file as it is.
C25_ConfigPatchIdempotent ==
    \A i \in 1..(Len(hist) - 1) :
        (hist[i].step.fn = "updateSupabaseConfig" /\ hist[i + 1].step = hist[i].step)
            => hist[i + 1].after = hist[i + 1].before

C27_RootRelativeStepsAfterChdir ==
    /\ [](/\ \A i \in Ops({"exec"}) :
                trace[i][2] \in (IF createOption = "monorepo"
                                 THEN {"mkdir -p apps/web apps/mobile", "npx create-next-app@latest apps/web"}
                                 ELSE {"pnpm add @supabase/supabase-js @supabase/ssr server-only", "pnpm add zod"})
                    => /\ \E j \in Ops({"chdir"}) : j < i
                       /\ trace[i][3] = resolve(InitialCwd, appName)
          /\ Cardinality(Ops({"chdir"})) <= 1
          /\ (Exited /\ exitCode = 0 /\ FlowEntered) => (Cardinality(Ops({"chdir"})) = 1 /\ cwd = resolve(InitialCwd, appName)))
    /\ [][cwd' # cwd => (At("chdir") /\ cwd = InitialCwd /\ cwd' = resolve(InitialCwd, appName))]_vars

C27_Witness ==
    /\ \E i \in Ops({"exec"}) : trace[i][2] = "pnpm add zod" /\ trace[i][3] = <<"myapp">>
    /\ \E i \in Ops({"chdir"}) : trace[i][3] = <<"myapp">>
    /\ cwd = <<"myapp">> /\ Exited /\ exitCode = 0

\* C28: once resolved, the project name, the architecture, the template type
\* and the target path never change; and the project path a flow provisions
\* into, once computed, is the target path join(initial cwd, project name)
\* whose existence the Directory Guard checked.
C28_ResolvedValuesFixed ==
    /\ [][/\ targetDirectory # NoPath => (appName' = appName /\ targetDirectory' = targetDirectory)
          /\ FlowEntered => (createOption' = createOption /\ templateType' = templateType)
          /\ projectPath # NoPath => projectPath' = projectPath]_vars
    /\ [](projectPath # NoPath => (projectPath = targetDirectory /\ targetDirectory = join(InitialCwd, appName)))

\* C29: no later stage receives an empty project name: whatever the positional
\* argument and the answer to the name prompt, also with --force, neither
\* provisioning flow is entered with an empty (or missing) project name.
C29_NameNeverEmpty == FlowEntered => (appName # "" /\ appName # Undefined)

\* C30: with the bare template no opinionated-only step executes in either
\* flow: no UI-component generator, no install-all confirm prompt, no
\* schema-validation install, no store scaffold, no lint/format scaffold and
\* no mobile UI-component install. With the opinionated template each of
\* these steps of the chosen flow (and none of the other flow) is attempted
\* at most once, and exactly once in a run whose flow runs to its end.
C30_OpinionatedOnlySteps ==
    LET Count(cmd) == Cardinality({i \in Ops({"exec"}) : trace[i][2] = cmd})
        confirms == Cardinality({i \in Ops({"prompt"}) : trace[i][2] = "confirm:addAllComponents"})
        shared == {"pnpm dlx shadcn@latest init", "pnpm add @legendapp/state uuid",
                   "pnpm add --save-dev eslint-config-prettier eslint-plugin-prettier prettier"}
        single == shared \cup {"pnpm add zod"}
        mono == shared \cup {"pnpm add zod @supabase/supabase-js @supabase/ssr server-only",
                             "pnpm dlx @react-native-reusables/cli@latest add --all",
                             "npx expo install react-native-gesture-handler", "npx expo install zod",
                             "npx expo install @legendapp/state uuid react-native-mmkv",
                             "npx expo install eslint eslint-config-expo prettier --dev"}
        steps == IF createOption = "monorepo" THEN mono ELSE single
        RanToEnd == FlowEntered /\ (pc = "outro" \/ (Exited /\ exitCode = 0))
    IN /\ templateType # "opinionated" => (confirms = 0 /\ \A cmd \in single \cup mono : Count(cmd) = 0)
       /\ templateType = "opinionated" =>
             /\ confirms <= 1 /\ (createOption = "monorepo" => confirms = 0)
             /\ \A cmd \in single \cup mono : Count(cmd) <= (IF cmd \in steps THEN 1 ELSE 0)
             /\ RanToEnd => /\ \A cmd \in steps : Count(cmd) = 1
                            /\ createOption = "nextjs-only" => confirms = 1

C30_Witness ==
    /\ templateType = "opinionated" /\ createOption = "monorepo" /\ Exited /\ exitCode = 0
    /\ \E i \in Ops({"exec"}) : trace[i][2] = "npx expo install zod"
    /\ \E i \in Ops({"exec"}) : trace[i][2] = "pnpm dlx shadcn@latest init"
    /\ \E i \in Ops({"exec"}) : trace[i][2] = "npx expo install eslint eslint-config-expo prettier --dev"

====
